---- MODULE Spec2Model ----
(***************************************************************************)
(* Message intake, classification and routing pipeline of the WhatsApp     *)
(* bot (src/unnamed/part_000): rate limiter, dedup cache, user tracker,    *)
(* forwarded-message store, department routing and staff-reply             *)
(* correlation, and the per-message handler that strings them together.    *)
(*                                                                         *)
(* Time is Date.now() in milliseconds.  JS Maps and plain objects are      *)
(* functions whose DOMAIN is the set of keys present.  The methods of the  *)
(* program are operators from a program state s (the record Cur of all     *)
(* program variables, plus the field ret for the return value) to the      *)
(* program state after the call, so that a handler is the composition of   *)
(* the calls it makes, in the order it makes them.                         *)
(***************************************************************************)
EXTENDS Integers, Sequences, FiniteSets, TLC

VARIABLES
    now,            \* Date.now()
    userLimits,     \* SmartRateLimiter.userLimits : userId -> {count, resetTime}
    violations,     \* SmartRateLimiter.violations : userId -> number
    cache,          \* MessageCache.cache : <<userId, hash>> -> timestamp
    interactions,   \* UserTracker.interactions : userId -> user record
    messages,       \* ForwardedMessagesManager.messages, in insertion order
    analytics,      \* EnhancedAnalytics.analytics
    staffDirectory, \* the cached staff directory, NoDirectory for null
    lastStaffFetch, \* time of the fetch that filled the cache
    nextId,         \* the random part of the next message id
    disk,           \* the JSON files under DATA_DIR, by table
    phase,          \* the process: "running", "closing" or "down"
    handlers,       \* the message handlers suspended at an await, by delivery
    outbox,         \* what the transport was given to send and sent
    delivered,      \* number of message events the transport has delivered
    faults,         \* number of awaited calls that have failed
    dlv,            \* observer: what the last delivery did
    processedAt,    \* observer: event -> time of its last processed delivery
    watch,          \* observer: what each suspended handler is watched for
    srObs,          \* observer: the last return of processStaffReply
    rtObs,          \* observer: the last return of routeToDepartment
    matchObs,       \* observer: the last ticket picked for a staff reply
    welcomed,       \* observer: the welcomes the general branch has decided on
    ticks,          \* observer: number of clock advances so far
    rlObs,          \* observer: the last checkLimit call and its result
    rlWin,          \* observer: per sender, the current window as the contract counts it
    rlFree,         \* observer: the limiter of the same calls with no cleanup in between
    dupObs,         \* observer: the last isDuplicate call and its result
    dupFirst,       \* observer: per key, the time of the first isDuplicate call
    utObs,          \* observer: the last call of a UserTracker throttle
    swObs,          \* observer: the last sweep of the tickets, and all it took
    rsObs,          \* observer: the stores at the last shutdown and after the restart
    nlpObs,         \* observer: the last text given to the classifier, and what it made of it
    tmObs           \* observer: the last trackMessage call, the samples before and after

storeVars == <<userLimits, violations, cache, interactions, messages, analytics,
               staffDirectory, lastStaffFetch, nextId, disk, phase, outbox>>
hdlObs == <<dlv, processedAt, watch, srObs, rtObs, matchObs, welcomed>>
handlerVars == <<handlers, delivered, faults, hdlObs>>
unitObs == <<rlObs, rlWin, rlFree, dupObs, dupFirst, utObs, swObs, rsObs, nlpObs, tmObs>>
obsVars == <<ticks, unitObs>>
vars == <<now, storeVars, handlerVars, obsVars>>

(***************************************************************************)
(* Bounds of the model                                                     *)
(***************************************************************************)
MaxTicks == 3      \* clock advances per run
MaxOver == 2       \* calls observed beyond the quota inside one window
MaxDupCalls == 3   \* isDuplicate calls observed per key
MaxSeen == 2       \* recordInteraction calls per sender
MaxMsgs == 2
MaxFaults == 2
MaxRouteMsgs == 3
MaxInFlight == 2
MaxChatMsgs == 3
MaxChatTicks == 2
MaxSweepMsgs == 3
MaxSweepTicks == 3
MaxFailMsgs == 3
MaxInvalidMsgs == 3
MaxRestartMsgs == 2
MaxRestarts == 1
MaxFilterMsgs == 3
MaxFragments == 2
MaxTracks == 3
MaxDiskMsgs == 3
MaxGateMsgs == 4
MaxDirMsgs == 2
MaxDirTicks == 2
MaxAdmitMsgs == 17
MaxQueryMsgs == 3
MaxJumps == 1
MaxDeskMsgs == 3

(***************************************************************************)
(* Program constants                                                       *)
(***************************************************************************)
maxRequests == 15
windowMs == 60000
MESSAGE_CACHE_DURATION == 60 * 60 * 1000
FORWARDED_MSG_CLEANUP == 24 * 60 * 60 * 1000
CACHE_DURATION == 5 * 60 * 1000
MAX_ANALYTICS_ENTRIES == 10000
ONE_DAY == 24 * 60 * 60 * 1000
FIVE_MINUTES == 5 * 60 * 1000

Users == {"c1@c.us", "c2@c.us"}

(***************************************************************************)
(* Map helpers                                                             *)
(***************************************************************************)
Put(map, k, v) == [x \in (DOMAIN map) \cup {k} |-> IF x = k THEN v ELSE map[x]]
Remove(map, ks) == [x \in (DOMAIN map) \ ks |-> map[x]]
EmptyMap == [x \in {} |-> 0]

\* the program state, as the methods below take and return it
Cur ==
    [now |-> now, userLimits |-> userLimits, violations |-> violations,
     cache |-> cache, interactions |-> interactions, messages |-> messages,
     analytics |-> analytics, staffDirectory |-> staffDirectory,
     lastStaffFetch |-> lastStaffFetch, nextId |-> nextId, disk |-> disk,
     phase |-> phase,
     outbox |-> outbox, ret |-> FALSE]

\* the program variables take the values of program state s
Becomes(s) ==
    /\ userLimits' = s.userLimits
    /\ violations' = s.violations
    /\ cache' = s.cache
    /\ interactions' = s.interactions
    /\ messages' = s.messages
    /\ analytics' = s.analytics
    /\ staffDirectory' = s.staffDirectory
    /\ lastStaffFetch' = s.lastStaffFetch
    /\ nextId' = s.nextId
    /\ disk' = s.disk
    /\ phase' = s.phase
    /\ outbox' = s.outbox

\* loadAnalytics(): the default value of safeReadJSON(ANALYTICS_FILE, ...)
NoAnalytics ==
    [total_messages |-> 0, unique_users |-> <<>>, intents |-> EmptyMap,
     response_times |-> <<>>, errors |-> 0, successful_requests |-> 0,
     failed_requests |-> 0]

\* the files of a fresh installation: none exists, every table loads as its
\* default value; writable tells whether fs.writeFileSync goes through
NoFiles ==
    [cache |-> EmptyMap, interactions |-> EmptyMap, messages |-> <<>>,
     analytics |-> NoAnalytics, writable |-> TRUE]

NoDirectory == [loaded |-> FALSE, byDept |-> EmptyMap]

\* mutant of safeWriteJSON: after a write that fails the table is what the
\* file holds
safeWriteJSONRollsBack(s, file, data) ==
    IF s.disk.writable THEN [s EXCEPT !.disk[file] = data]
    ELSE IF file = "analytics" THEN s
    ELSE [s EXCEPT ![file] = s.disk[file]]

\* safeWriteJSON(filePath, data): the error of a write that fails is caught
\* and logged, and the file is as it was
safeWriteJSON(s, file, data) ==
    IF s.disk.writable THEN [s EXCEPT !.disk[file] = data] ELSE s

(***************************************************************************)
(* SmartRateLimiter                                                        *)
(***************************************************************************)
getViolations(s, userId) ==
    IF userId \in DOMAIN s.violations THEN s.violations[userId] ELSE 0

\* checkLimit: "Initialize or reset if window expired"
checkLimitUserData(s, userId) ==
    IF (IF userId \in DOMAIN s.userLimits
        THEN s.now > s.userLimits[userId].resetTime ELSE TRUE)
    THEN [count |-> 0, resetTime |-> s.now + windowMs]
    ELSE s.userLimits[userId]

\* mutant of checkLimitDenies: the quota test off by one
checkLimitDeniesOffByOne(s, userId) ==
    checkLimitUserData(s, userId).count > maxRequests

\* checkLimit: if (userData.count >= this.maxRequests)
checkLimitDenies(s, userId) ==
    checkLimitUserData(s, userId).count >= maxRequests

\* mutant of checkLimit: a denied call starts the window of the sender again
checkLimitDenialExtends(s, userId) ==
    IF checkLimitDenies(s, userId)
    THEN [s EXCEPT !.violations = Put(@, userId, getViolations(s, userId) + 1),
                   !.userLimits =
                       Put(@, userId, [checkLimitUserData(s, userId)
                                         EXCEPT !.resetTime = s.now + windowMs]),
                   !.ret = FALSE]
    ELSE [s EXCEPT !.userLimits =
                       Put(@, userId, [checkLimitUserData(s, userId)
                                         EXCEPT !.count = @ + 1]),
                   !.ret = TRUE]

\* checkLimit(userId); ret is its return value
checkLimit(s, userId) ==
    IF checkLimitDenies(s, userId)
    THEN [s EXCEPT !.violations = Put(@, userId, getViolations(s, userId) + 1),
                   !.ret = FALSE]
    ELSE [s EXCEPT !.userLimits =
                       Put(@, userId, [checkLimitUserData(s, userId)
                                         EXCEPT !.count = @ + 1]),
                   !.ret = TRUE]

\* mutant of getRemainingRequests: a sender with no window has nothing left
getRemainingRequestsOfKnown(s, userId) ==
    IF userId \notin DOMAIN s.userLimits
    THEN 0
    ELSE IF maxRequests - s.userLimits[userId].count > 0
         THEN maxRequests - s.userLimits[userId].count
         ELSE 0

\* getRemainingRequests(userId)
getRemainingRequests(s, userId) ==
    IF userId \notin DOMAIN s.userLimits
    THEN maxRequests
    ELSE IF maxRequests - s.userLimits[userId].count > 0
         THEN maxRequests - s.userLimits[userId].count
         ELSE 0

\* mutant of rateLimiterCleanup: every window that has run out is dropped,
\* and so is every window that is still open
rateLimiterCleanupAll(s) ==
    [s EXCEPT !.userLimits = EmptyMap,
              !.violations =
                  IF Cardinality(DOMAIN @) > 100 THEN EmptyMap ELSE @]

\* cleanup(): windows idle for more than one further window are dropped;
\* the violations map is cleared once it holds more than 100 senders
rateLimiterCleanup(s) ==
    [s EXCEPT !.userLimits =
                  Remove(@, {u \in DOMAIN @ : s.now > @[u].resetTime + windowMs}),
              !.violations =
                  IF Cardinality(DOMAIN @) > 100 THEN EmptyMap ELSE @]

(***************************************************************************)
(* MessageCache                                                            *)
(***************************************************************************)
\* cacheKey = `${userId}_${messageHash}`; the hash is a fixed-length digest,
\* so the key determines the pair
cacheKey(userId, messageHash) == <<userId, messageHash>>

saveCache(s) == safeWriteJSON(s, "cache", s.cache)

\* mutant of isDuplicateHit: the cache is never found to hold the key
isDuplicateNeverHit(s, key) == FALSE

\* isDuplicate: if (this.cache[cacheKey]) -- a stored timestamp of 0 is falsy
isDuplicateHit(s, key) ==
    IF key \in DOMAIN s.cache THEN s.cache[key] # 0 ELSE FALSE

\* isDuplicate(userId, messageHash); ret is its return value
isDuplicate(s, userId, messageHash) ==
    LET key == cacheKey(userId, messageHash)
        s1 == [s EXCEPT !.cache = Put(@, key, s.now), !.ret = FALSE]
    IN  IF isDuplicateHit(s, key)
        THEN [s EXCEPT !.ret = TRUE]
        ELSE IF Cardinality(DOMAIN s1.cache) % 20 = 0 THEN saveCache(s1) ELSE s1

\* mutant of messageCacheExpired: entries expire at half the duration
messageCacheExpiredEarly(s, key) ==
    2 * (s.now - s.cache[key]) > MESSAGE_CACHE_DURATION

\* cleanup: if (now - timestamp > MESSAGE_CACHE_DURATION)
messageCacheExpired(s, key) ==
    s.now - s.cache[key] > MESSAGE_CACHE_DURATION

\* cleanup(): expired entries are deleted, and the file is written if any was
messageCacheCleanup(s) ==
    LET old == {k \in DOMAIN s.cache : messageCacheExpired(s, k)}
        s1 == [s EXCEPT !.cache = Remove(@, old)]
    IN  IF old # {} THEN saveCache(s1) ELSE s1

(***************************************************************************)
(* EnhancedAnalytics                                                       *)
(***************************************************************************)
\* Array.from(set)
RECURSIVE arrayFrom(_)
arrayFrom(set) ==
    IF set = {} THEN <<>>
    ELSE LET x == CHOOSE y \in set : TRUE
         IN  <<x>> \o arrayFrom(set \ {x})

\* loadAnalytics(), of what safeReadJSON gives: new Set(data.unique_users)
loadAnalytics(data) ==
    [data EXCEPT !.unique_users = {data.unique_users[n] : n \in 1..Len(@)}]

\* saveAnalytics(): unique_users goes to the file as an array, response_times
\* is trimmed in the file when it is too long
saveAnalytics(s) ==
    safeWriteJSON(s, "analytics",
        [s.analytics EXCEPT
            !.unique_users = arrayFrom(@),
            !.response_times =
                IF Len(@) > MAX_ANALYTICS_ENTRIES
                THEN SubSeq(@, Len(@) - 999, Len(@)) ELSE @])

\* mutant of trackOutcome: a failed request is counted as an error only
trackOutcomeErrorsOnly(a, success) ==
    [a EXCEPT !.errors = IF success THEN @ ELSE @ + 1,
              !.successful_requests = IF success THEN @ + 1 ELSE @]

\* trackMessage: if (success) successful_requests++ else errors++,
\* failed_requests++
trackOutcome(a, success) ==
    [a EXCEPT !.errors = IF success THEN @ ELSE @ + 1,
              !.successful_requests = IF success THEN @ + 1 ELSE @,
              !.failed_requests = IF success THEN @ ELSE @ + 1]

\* mutant of trackMessage: of a buffer that is too long the first 1000
\* samples are kept
trackMessageKeepsOldest(s, userId, intent, responseTime, success) ==
    LET a == s.analytics
        times == Append(a.response_times,
                        [timestamp |-> s.now, response_time |-> responseTime,
                         intent |-> intent, success |-> success])
        s1 == [s EXCEPT !.analytics =
                 [a EXCEPT !.total_messages = @ + 1,
                           !.unique_users = @ \cup {userId},
                           !.intents = Put(@, intent,
                               (IF intent \in DOMAIN @ THEN @[intent] ELSE 0) + 1),
                           !.response_times =
                               IF Len(times) > 1000
                               THEN SubSeq(times, 1, 1000)
                               ELSE times]]
        s2 == [s1 EXCEPT !.analytics = trackOutcome(@, success)]
    IN  IF s2.analytics.total_messages % 10 = 0 THEN saveAnalytics(s2) ELSE s2

\* trackMessage(userId, intent, responseTime, success)
trackMessage(s, userId, intent, responseTime, success) ==
    LET a == s.analytics
        times == Append(a.response_times,
                        [timestamp |-> s.now, response_time |-> responseTime,
                         intent |-> intent, success |-> success])
        s1 == [s EXCEPT !.analytics =
                 [a EXCEPT !.total_messages = @ + 1,
                           !.unique_users = @ \cup {userId},
                           !.intents = Put(@, intent,
                               (IF intent \in DOMAIN @ THEN @[intent] ELSE 0) + 1),
                           !.response_times =
                               IF Len(times) > 1000
                               THEN SubSeq(times, Len(times) - 999, Len(times))
                               ELSE times]]
        s2 == [s1 EXCEPT !.analytics = trackOutcome(@, success)]
    IN  IF s2.analytics.total_messages % 10 = 0 THEN saveAnalytics(s2) ELSE s2

(***************************************************************************)
(* UserTracker.  A timestamp field that is null in the program is 0 here:  *)
(* the program tests these fields for truthiness only.                     *)
(***************************************************************************)
saveInteractions(s) == safeWriteJSON(s, "interactions", s.interactions)

\* recordInteraction(userId)
recordInteraction(s, userId) ==
    LET known == userId \in DOMAIN s.interactions
        fresh == [firstSeen |-> s.now, lastSeen |-> s.now, messageCount |-> 0,
                  lastWelcome |-> 0, botActive |-> TRUE, lastBotResponse |-> 0,
                  ignoredMessages |-> 0]
        user == IF known THEN s.interactions[userId] ELSE fresh
        s1 == [s EXCEPT !.interactions =
                 Put(@, userId, [user EXCEPT !.lastSeen = s.now,
                                             !.messageCount = @ + 1])]
    IN  IF s1.interactions[userId].messageCount % 5 = 0
        THEN saveInteractions(s1) ELSE s1

\* shouldSendWelcome(userId); ret is its return value
\* mutant of shouldSendWelcome: a welcome that is due is not stamped
shouldSendWelcomeUnstamped(s, userId) ==
    IF userId \notin DOMAIN s.interactions THEN [s EXCEPT !.ret = TRUE]
    ELSE LET lastWelcome == s.interactions[userId].lastWelcome
         IN  [s EXCEPT !.ret = lastWelcome = 0 \/ (s.now - lastWelcome) > ONE_DAY]

\* shouldSendWelcome(userId)
shouldSendWelcome(s, userId) ==
    IF userId \notin DOMAIN s.interactions THEN [s EXCEPT !.ret = TRUE]
    ELSE LET lastWelcome == s.interactions[userId].lastWelcome
         IN  IF lastWelcome = 0 \/ (s.now - lastWelcome) > ONE_DAY
             THEN saveInteractions(
                      [s EXCEPT !.interactions[userId].lastWelcome = s.now,
                                !.ret = TRUE])
             ELSE [s EXCEPT !.ret = FALSE]

\* isBotActive(userId)
isBotActive(s, userId) ==
    IF userId \notin DOMAIN s.interactions THEN TRUE
    ELSE s.interactions[userId].botActive # FALSE

\* mutant of setBotActive: the count of ignored messages is left as it is
setBotActiveKeepsCount(s, userId, active) ==
    LET s1 == IF userId \notin DOMAIN s.interactions
              THEN recordInteraction(s, userId) ELSE s
    IN  saveInteractions(
            [s1 EXCEPT !.interactions[userId].botActive = active])

\* setBotActive(userId, active)
setBotActive(s, userId, active) ==
    LET s1 == IF userId \notin DOMAIN s.interactions
              THEN recordInteraction(s, userId) ELSE s
    IN  saveInteractions(
            [s1 EXCEPT !.interactions[userId].botActive = active,
                       !.interactions[userId].ignoredMessages =
                           IF active THEN 0 ELSE @])

\* recordBotResponse(userId)
recordBotResponse(s, userId) ==
    IF userId \in DOMAIN s.interactions
    THEN saveInteractions([s EXCEPT !.interactions[userId].lastBotResponse = s.now])
    ELSE s

\* mutant of shouldRespondToGeneral: a response exactly five minutes old no
\* longer holds the next one back
shouldRespondToGeneralAtFive(s, userId) ==
    IF userId \notin DOMAIN s.interactions THEN TRUE
    ELSE LET lastResponse == s.interactions[userId].lastBotResponse
         IN  IF lastResponse = 0 THEN TRUE
             ELSE s.now - lastResponse >= FIVE_MINUTES

\* shouldRespondToGeneral(userId)
shouldRespondToGeneral(s, userId) ==
    IF userId \notin DOMAIN s.interactions THEN TRUE
    ELSE LET lastResponse == s.interactions[userId].lastBotResponse
         IN  IF lastResponse = 0 THEN TRUE
             ELSE s.now - lastResponse > FIVE_MINUTES

\* mutant of incrementIgnoredMessages: the counter is left as it is
incrementIgnoredMessagesSkipped(s, userId) == s

\* incrementIgnoredMessages(userId)
incrementIgnoredMessages(s, userId) ==
    IF userId \in DOMAIN s.interactions
    THEN LET s1 == [s EXCEPT !.interactions[userId].ignoredMessages = @ + 1]
         IN  IF s1.interactions[userId].ignoredMessages % 10 = 0
             THEN saveInteractions(s1) ELSE s1
    ELSE s

(***************************************************************************)
(* ForwardedMessagesManager.  The store is a JS object; Object.entries     *)
(* lists its keys in insertion order, so it is kept as a sequence of       *)
(* entries, each carrying its key in the field id.                         *)
(***************************************************************************)
saveMessages(s) == safeWriteJSON(s, "messages", s.messages)

messageIndex(store, messageId) ==
    IF \E n \in 1..Len(store) : store[n].id = messageId
    THEN CHOOSE n \in 1..Len(store) : store[n].id = messageId
    ELSE 0

\* mutant of storeMessage: a new entry is put in front of the older ones
storeMessageInFront(store, entry) ==
    IF messageIndex(store, entry.id) = 0
    THEN <<entry>> \o store
    ELSE [store EXCEPT ![messageIndex(store, entry.id)] = entry]

\* this.messages[messageId] = ...: a new key goes last, a key already there
\* keeps its place and takes the new value
storeMessage(store, entry) ==
    IF messageIndex(store, entry.id) = 0
    THEN Append(store, entry)
    ELSE [store EXCEPT ![messageIndex(store, entry.id)] = entry]

\* addMessage(messageId, data)
addMessage(s, messageId, data) ==
    saveMessages([s EXCEPT !.messages =
        storeMessage(@, [id |-> messageId,
                         clientNumber |-> data.clientNumber,
                         staffNumber |-> data.staffNumber,
                         staffName |-> data.staffName,
                         department |-> data.department,
                         clientName |-> data.clientName,
                         originalMessage |-> data.originalMessage,
                         timestamp |-> s.now])])

\* mutant of removeMessage: the entry is reported removed and kept
removeMessageKept(s, messageId) ==
    [s EXCEPT !.ret = messageIndex(s.messages, messageId) # 0]

\* removeMessage(messageId)
removeMessage(s, messageId) ==
    LET n == messageIndex(s.messages, messageId)
    IN  IF n = 0 THEN [s EXCEPT !.ret = FALSE]
        ELSE saveMessages(
                 [s EXCEPT !.messages = SubSeq(@, 1, n - 1) \o SubSeq(@, n + 1, Len(@)),
                           !.ret = TRUE])

\* mutant of forwardedMessageExpired: a ticket exactly 24 hours old goes too
forwardedMessageExpiredAtLife(s, entry) ==
    s.now - entry.timestamp >= FORWARDED_MSG_CLEANUP

\* cleanup: if (now - data.timestamp > FORWARDED_MSG_CLEANUP)
forwardedMessageExpired(s, entry) ==
    s.now - entry.timestamp > FORWARDED_MSG_CLEANUP

RECURSIVE keepEntries(_, _)
keepEntries(store, keep) ==
    IF Len(store) = 0 THEN <<>>
    ELSE (IF keep[1] THEN <<store[1]>> ELSE <<>>)
             \o keepEntries(Tail(store), Tail(keep))

\* cleanup()
forwardedMessagesCleanup(s) ==
    LET keep == [n \in 1..Len(s.messages) |->
                    ~forwardedMessageExpired(s, s.messages[n])]
        s1 == [s EXCEPT !.messages = keepEntries(@, keep)]
    IN  IF \E n \in 1..Len(keep) : ~keep[n] THEN saveMessages(s1) ELSE s1

(***************************************************************************)
(* Strings.  A JS string is a TLA+ string; positions are 1-based and a     *)
(* match is given by the position just after it.                           *)
(***************************************************************************)
UpperChars == "ABCDEFGHIJKLMNOPQRSTUVWXYZ"
LowerChars == "abcdefghijklmnopqrstuvwxyz"
DigitChars == "0123456789"

CharAt(str, i) == SubSeq(str, i, i)
CharsOf(str) == {CharAt(str, i) : i \in 1..Len(str)}

RECURSIVE IndexOfChar(_, _, _)
IndexOfChar(str, c, i) ==
    IF i > Len(str) THEN 0
    ELSE IF CharAt(str, i) = c THEN i ELSE IndexOfChar(str, c, i + 1)

isSpace(c) == c \in {" ", "\t", "\n", "\r"}
DigitSet == CharsOf(DigitChars)
LetterSet == CharsOf(UpperChars) \cup CharsOf(LowerChars)
isDigit(c) == c \in DigitSet
\* \w
isWordChar(c) == c \in LetterSet \cup DigitSet \cup {"_"}

RECURSIVE mapChars(_, _, _)
mapChars(str, from, to) ==
    IF Len(str) = 0 THEN ""
    ELSE LET c == CharAt(str, 1)
             i == IndexOfChar(from, c, 1)
         IN  (IF i = 0 THEN c ELSE CharAt(to, i))
                 \o mapChars(SubSeq(str, 2, Len(str)), from, to)

toLowerCase(str) == mapChars(str, UpperChars, LowerChars)
toUpperCase(str) == mapChars(str, LowerChars, UpperChars)

\* str.includes(sub)
includes(str, sub) ==
    \E i \in 1..(Len(str) - Len(sub) + 1) : SubSeq(str, i, i + Len(sub) - 1) = sub

\* str.substring(0, n)
substring0(str, n) == SubSeq(str, 1, IF Len(str) < n THEN Len(str) ELSE n)

RECURSIVE removeChars(_, _)
removeChars(str, drop) ==
    IF Len(str) = 0 THEN ""
    ELSE (IF drop[CharAt(str, 1)] THEN "" ELSE CharAt(str, 1))
             \o removeChars(SubSeq(str, 2, Len(str)), drop)

RECURSIVE trimStart(_)
trimStart(str) ==
    IF Len(str) > 0 /\ isSpace(CharAt(str, 1))
    THEN trimStart(SubSeq(str, 2, Len(str))) ELSE str

RECURSIVE trimEnd(_)
trimEnd(str) ==
    IF Len(str) > 0 /\ isSpace(CharAt(str, Len(str)))
    THEN trimEnd(SubSeq(str, 1, Len(str) - 1)) ELSE str

trim(str) == trimEnd(trimStart(str))

\* sanitizeInput(text): text.replace(/[<>]/g, '').substring(0, 2000).trim()
sanitizeInput(text) ==
    trim(substring0(removeChars(text, [c \in CharsOf(text) |-> c \in {"<", ">"}]),
                    2000))

\* text.replace(/\s+/g, '')
removeSpaces(str) == removeChars(str, [c \in CharsOf(str) |-> isSpace(c)])

\* number of characters from position i on that satisfy the class, at most max
RECURSIVE runLength(_, _, _, _)
runLength(str, i, class, max) ==
    IF max = 0 \/ i > Len(str) THEN 0
    ELSE IF class[CharAt(str, i)]
         THEN 1 + runLength(str, i + 1, class, max - 1) ELSE 0

(***************************************************************************)
(* Regular expressions.  A pattern is a sequence of items; Ends(re, k, t,  *)
(* i) is the sequence of positions at which items k.. of re can end a      *)
(* match that starts at i in t, in the order the backtracking matcher      *)
(* tries them (greedy quantifiers longest first, alternatives in order),   *)
(* so that its head is the match the engine reports.                       *)
(***************************************************************************)
Lit(str) == [t |-> "lit", s |-> str]
Ws1 == [t |-> "ws", lo |-> 1]                      \* \s+
Ws0 == [t |-> "ws", lo |-> 0]                      \* \s*
Digits(lo, hi) == [t |-> "dig", lo |-> lo, hi |-> hi]   \* \d{lo,hi}
OptLetter == [t |-> "letter?"]                     \* [a-z]?
Alt(strs) == [t |-> "alt", alts |-> strs]          \* (a|b|c), literals
WordBoundary == [t |-> "wb"]                       \* \b
Bol == [t |-> "bol"]                               \* ^
Eol == [t |-> "eol"]                               \* $
AnyStar == [t |-> "any*"]                          \* .*

atWordBoundary(t, i) ==
    LET before == IF i > 1 THEN isWordChar(CharAt(t, i - 1)) ELSE FALSE
        after == IF i <= Len(t) THEN isWordChar(CharAt(t, i)) ELSE FALSE
    IN  before # after

litAt(t, i, str) ==
    IF i + Len(str) - 1 <= Len(t) THEN SubSeq(t, i, i + Len(str) - 1) = str
    ELSE FALSE

RECURSIVE Ends(_, _, _, _)
RECURSIVE EndsLongestFirst(_, _, _, _, _, _)
RECURSIVE EndsOfAlts(_, _, _, _, _)

\* the rest of the pattern after consuming j, j-1, ..., lo characters
EndsLongestFirst(re, k, t, i, j, lo) ==
    IF j < lo THEN <<>>
    ELSE Ends(re, k + 1, t, i + j) \o EndsLongestFirst(re, k, t, i, j - 1, lo)

\* the rest of the pattern after alternative a, a+1, ... of item k
EndsOfAlts(re, k, t, i, a) ==
    IF a > Len(re[k].alts) THEN <<>>
    ELSE (IF litAt(t, i, re[k].alts[a])
          THEN Ends(re, k + 1, t, i + Len(re[k].alts[a])) ELSE <<>>)
             \o EndsOfAlts(re, k, t, i, a + 1)

Ends(re, k, t, i) ==
    IF k > Len(re) THEN <<i>>
    ELSE LET it == re[k] IN
      CASE it.t = "lit" ->
             IF litAt(t, i, it.s) THEN Ends(re, k + 1, t, i + Len(it.s)) ELSE <<>>
        [] it.t = "ws" ->
             EndsLongestFirst(re, k, t, i,
                 runLength(t, i, [c \in CharsOf(t) |-> isSpace(c)], Len(t)), it.lo)
        [] it.t = "dig" ->
             EndsLongestFirst(re, k, t, i,
                 runLength(t, i, [c \in CharsOf(t) |-> isDigit(c)], it.hi), it.lo)
        [] it.t = "letter?" ->
             EndsLongestFirst(re, k, t, i,
                 runLength(t, i, [c \in CharsOf(t) |-> c \in LetterSet], 1), 0)
        [] it.t = "alt" -> EndsOfAlts(re, k, t, i, 1)
        [] it.t = "wb" -> IF atWordBoundary(t, i) THEN Ends(re, k + 1, t, i) ELSE <<>>
        [] it.t = "bol" -> IF i = 1 THEN Ends(re, k + 1, t, i) ELSE <<>>
        [] it.t = "eol" -> IF i = Len(t) + 1 THEN Ends(re, k + 1, t, i) ELSE <<>>
        [] it.t = "any*" ->
             EndsLongestFirst(re, k, t, i,
                 runLength(t, i, [c \in CharsOf(t) |-> c \notin {"\n", "\r"}], Len(t)), 0)

\* the matches of a /g pattern from position pos on, as <<start, end>> pairs:
\* leftmost first, the next search starting where the last match ended
RECURSIVE matchesFrom(_, _, _)
matchesFrom(re, t, pos) ==
    IF pos > Len(t) + 1 THEN <<>>
    ELSE LET e == Ends(re, 1, t, pos) IN
         IF e = <<>> THEN matchesFrom(re, t, pos + 1)
         ELSE <<<<pos, e[1]>>>>
                 \o matchesFrom(re, t, IF e[1] = pos THEN pos + 1 ELSE e[1])

\* text.match(pattern) for a /g pattern: the matched substrings
matchAll(re, t) ==
    LET spans == matchesFrom(re, t, 1)
    IN  [n \in 1..Len(spans) |-> SubSeq(t, spans[n][1], spans[n][2] - 1)]

\* whether the pattern matches anywhere
matchesSomewhere(re, t) == \E i \in 1..(Len(t) + 1) : Ends(re, 1, t, i) # <<>>

(***************************************************************************)
(* natural.WordTokenizer and natural.PorterStemmer (library code)          *)
(***************************************************************************)
\* tokenize: split on runs of characters outside [A-Za-z0-9_], drop empty tokens
RECURSIVE tokenize(_)
tokenize(str) ==
    IF Len(str) = 0 THEN <<>>
    ELSE LET n == runLength(str, 1, [c \in CharsOf(str) |-> isWordChar(c)], Len(str))
         IN  IF n = 0 THEN tokenize(SubSeq(str, 2, Len(str)))
             ELSE <<SubSeq(str, 1, n)>> \o tokenize(SubSeq(str, n + 1, Len(str)))

\* Porter stems of the words of the keyword table and of the texts of the model
\* that change under stemming; any other word of the model is its own stem
PorterStems ==
    [factory |-> "factori", performance |-> "perform", average |-> "averag",
     details |-> "detail", elevation |-> "elev", valuation |-> "valuat",
     technical |-> "technic", marketing |-> "market", inquiry |-> "inquiri",
     pause |-> "paus", disable |-> "disabl", enable |-> "enabl",
     activate |-> "activ", unmute |-> "unmut", resume |-> "resum",
     options |-> "option", commands |-> "command", location |-> "locat",
     status |-> "statu", stats |-> "stat", statistics |-> "statist",
     analytics |-> "analyt", thanks |-> "thank", goodbye |-> "goodby",
     vacancy |-> "vacanc", vacancies |-> "vacanc", hiring |-> "hire",
     recruitment |-> "recruit", apply |-> "appli",
     accounts |-> "account", invoice |-> "invoic", please |-> "pleas",
     there |-> "there"]

stem(word) ==
    IF toLowerCase(word) \in DOMAIN PorterStems
    THEN PorterStems[toLowerCase(word)] ELSE toLowerCase(word)

(***************************************************************************)
(* AdvancedIntentClassifier                                                *)
(***************************************************************************)
\* a /gi pattern, and a pattern without the g flag that has n capture groups
G(re) == [re |-> re, g |-> TRUE, groups |-> 0]
NG(re, n) == [re |-> re, g |-> FALSE, groups |-> n]
ManyDigits == Digits(1, 2000)          \* \d+ on a sanitized text

\* initializePatterns(), in declaration order
patterns == <<
    [intent |-> "factory_query",
     keywords |-> <<"mf", "factory", "performance", "average", "data", "details",
                    "code">>,
     patterns |-> <<
        G(<<Lit("mf"), Ws0, OptLetter, Ws0, Digits(3, 4)>>),
        G(<<Lit("factory"), Ws1,
            Alt(<<"code", "performance", "data", "average">>)>>),
        G(<<WordBoundary, Lit("mf"), Digits(3, 4), WordBoundary>>),
        G(<<WordBoundary, Lit("average"), WordBoundary, AnyStar,
            WordBoundary, Lit("mf"), WordBoundary>>)>>,
     weight |-> 10],
    [intent |-> "elevation_query",
     keywords |-> <<"elevation", "uh", "wh", "high", "medium", "low", "price">>,
     patterns |-> <<
        G(<<Lit("elevation"), Ws1, Alt(<<"average", "price", "rate">>)>>),
        G(<<Alt(<<"uh", "wh", "high", "medium", "low">>), Ws1,
            Alt(<<"average", "price">>)>>),
        G(<<Lit("sale"), Ws1, ManyDigits, Ws1, Lit("elevation")>>)>>,
     weight |-> 8],
    [intent |-> "market_report",
     keywords |-> <<"market", "report", "pdf", "sale", "document">>,
     patterns |-> <<
        G(<<Lit("market"), Ws1, Lit("report")>>),
        G(<<Lit("sale"), Ws1, ManyDigits, Ws1, Lit("report")>>),
        G(<<Lit("pdf"), Ws1, Lit("report")>>),
        G(<<Lit("report"), Ws1, Lit("sale")>>)>>,
     weight |-> 9],
    [intent |-> "department_contact",
     keywords |-> <<"valuation", "account", "technical", "support", "it",
                    "marketing", "inquiry", "contact", "help">>,
     patterns |-> <<
        G(<<Lit("valuation"), Ws1, Alt(<<"department", "inquiry", "report">>)>>),
        G(<<Lit("account"), Alt(<<"s", "ing">>), Ws1,
            Alt(<<"department", "query", "issue">>)>>),
        G(<<Alt(<<"technical", "it">>), Ws1, Lit("support")>>),
        G(<<Lit("marketing"), Ws1, Alt(<<"inquiry", "department">>)>>)>>,
     weight |-> 7],
    [intent |-> "bot_control",
     keywords |-> <<"stop", "mute", "pause", "disable", "enable", "activate",
                    "unmute", "resume", "bot">>,
     patterns |-> <<
        G(<<Lit("stop"), Ws1, Alt(<<"bot", "responding", "messages">>)>>),
        G(<<Lit("mute"), Ws1, Lit("bot")>>),
        G(<<Lit("disable"), Ws1, Lit("bot")>>),
        G(<<Lit("pause"), Ws1, Lit("bot")>>),
        G(<<Lit("unmute"), Ws1, Lit("bot")>>),
        G(<<Lit("enable"), Ws1, Lit("bot")>>),
        G(<<Lit("activate"), Ws1, Lit("bot")>>),
        G(<<Lit("resume"), Ws1, Lit("bot")>>),
        G(<<Bol, Alt(<<"stop", "mute", "pause">>), Eol>>),
        G(<<Bol, Alt(<<"start", "unmute", "resume", "activate">>), Eol>>)>>,
     weight |-> 10],
    [intent |-> "help",
     keywords |-> <<"help", "menu", "start", "options", "commands">>,
     patterns |-> <<
        NG(<<Bol, Lit("help"), Eol>>, 0),
        NG(<<Bol, Lit("menu"), Eol>>, 0),
        NG(<<Bol, Lit("start"), Eol>>, 0),
        NG(<<Lit("what can you do")>>, 0)>>,
     weight |-> 6],
    [intent |-> "contact",
     keywords |-> <<"contact", "email", "phone", "address", "location">>,
     patterns |-> <<
        NG(<<Lit("contact"), Ws1, Lit("info")>>, 0),
        NG(<<Lit("email"), Ws1, Lit("address")>>, 0),
        NG(<<Lit("phone"), Ws1, Lit("number")>>, 0)>>,
     weight |-> 6],
    [intent |-> "status",
     keywords |-> <<"status", "stats", "statistics", "analytics">>,
     patterns |-> <<
        NG(<<Bol, Lit("status"), Eol>>, 0),
        NG(<<Bol, Lit("stats"), Eol>>, 0),
        NG(<<Lit("bot"), Ws1, Lit("status")>>, 0)>>,
     weight |-> 5],
    [intent |-> "casual_conversation",
     keywords |-> <<"hi", "hello", "hey", "good morning", "good evening",
                    "thanks", "thank you", "ok", "okay", "bye", "goodbye">>,
     patterns |-> <<
        NG(<<Bol, Alt(<<"hi", "hello", "hey">>), Eol>>, 1),
        NG(<<Bol, Lit("good"), Ws1,
             Alt(<<"morning", "afternoon", "evening", "night">>), Eol>>, 1),
        NG(<<Bol, Alt(<<"thanks", "thank you", "thx">>), Eol>>, 1),
        NG(<<Bol, Alt(<<"ok", "okay", "k">>), Eol>>, 1),
        NG(<<Bol, Alt(<<"bye", "goodbye", "see you">>), Eol>>, 1)>>,
     weight |-> 3],
    [intent |-> "irrelevant",
     keywords |-> <<"vacancy", "vacancies", "job", "hiring", "career",
                    "recruitment", "apply">>,
     patterns |-> <<
        G(<<Lit("any"), Ws1, Alt(<<"vacancy", "vacancies", "job">>)>>),
        G(<<Alt(<<"hiring", "recruitment", "career">>)>>),
        G(<<Lit("looking"), Ws1, Lit("for"), Ws1, Lit("job")>>)>> ,
     weight |-> 8] >>

\* "Keyword matching with stemming": 2 for the substring, 1 for the stem
RECURSIVE keywordScore(_, _, _, _)
keywordScore(keywords, n, cleanText, stems) ==
    IF n > Len(keywords) THEN 0
    ELSE (IF includes(cleanText, keywords[n]) THEN 2 ELSE 0)
       + (IF \E j \in 1..Len(stems) : stems[j] = stem(keywords[n]) THEN 1 ELSE 0)
       + keywordScore(keywords, n + 1, cleanText, stems)

\* matches.length of cleanText.match(pattern), 0 for null
matchLength(pattern, cleanText) ==
    IF pattern.g THEN Len(matchesFrom(pattern.re, cleanText, 1))
    ELSE IF matchesSomewhere(pattern.re, cleanText) THEN 1 + pattern.groups ELSE 0

\* "Pattern matching": 3 per match
RECURSIVE patternScore(_, _, _)
patternScore(pats, n, cleanText) ==
    IF n > Len(pats) THEN 0
    ELSE matchLength(pats[n], cleanText) * 3 + patternScore(pats, n + 1, cleanText)

\* the score of one intent, the weight applied
intentScore(data, cleanText, stems) ==
    (keywordScore(data.keywords, 1, cleanText, stems)
        + patternScore(data.patterns, 1, cleanText)) * data.weight

\* the loop of classify from entry n on: <<bestMatch, highestScore>>
RECURSIVE bestFrom(_, _, _, _)
bestFrom(n, best, cleanText, stems) ==
    IF n > Len(patterns) THEN best
    ELSE LET score == intentScore(patterns[n], cleanText, stems)
         IN  bestFrom(n + 1,
                      IF score > best[2] THEN <<patterns[n].intent, score>> ELSE best,
                      cleanText, stems)

\* mutant of classifyFloor: no floor on the score
classifyNoFloor(best) == best[1]

\* return highestScore >= 3 ? bestMatch : 'general'
classifyFloor(best) == IF best[2] >= 3 THEN best[1] ELSE "general"

\* classify(text)
classify(text) ==
    IF Len(text) = 0 THEN "general"
    ELSE LET cleanText == trim(toLowerCase(text))
             tokens == tokenize(cleanText)
             stems == [j \in 1..Len(tokens) |-> stem(tokens[j])]
         IN  classifyFloor(bestFrom(1, <<"general", 0>>, cleanText, stems))

\* [...new Set(codes)]: duplicates dropped, first occurrences kept in order
RECURSIVE dedupe(_)
dedupe(list) ==
    IF Len(list) = 0 THEN <<>>
    ELSE LET front == dedupe(SubSeq(list, 1, Len(list) - 1))
             last == list[Len(list)]
         IN  IF \E j \in 1..Len(front) : front[j] = last
             THEN front ELSE Append(front, last)

\* mutant of extractFactoryCodes: the matches are taken as they stand in the text
extractFactoryCodesAsWritten(text) ==
    LET re == <<WordBoundary, Lit("mf"), OptLetter, Ws0, Digits(3, 4), WordBoundary>>
        spans == matchesFrom(re, toLowerCase(text), 1)
        codes == [n \in 1..Len(spans) |->
                    SubSeq(text, spans[n][1], spans[n][2] - 1)]
        unique == dedupe(codes)
    IN  SubSeq(unique, 1, IF Len(unique) < 5 THEN Len(unique) ELSE 5)

\* extractFactoryCodes(text): /\b(MF[A-Z]?\s*\d{3,4})\b/gi
extractFactoryCodes(text) ==
    LET re == <<WordBoundary, Lit("mf"), OptLetter, Ws0, Digits(3, 4), WordBoundary>>
        spans == matchesFrom(re, toLowerCase(text), 1)
        codes == [n \in 1..Len(spans) |->
                    toUpperCase(removeSpaces(
                        SubSeq(text, spans[n][1], spans[n][2] - 1)))]
        unique == dedupe(codes)
    IN  SubSeq(unique, 1, IF Len(unique) < 5 THEN Len(unique) ELSE 5)

\* parseInt of a string of digits
RECURSIVE parseInt(_)
parseInt(digits) ==
    IF Len(digits) = 0 THEN 0
    ELSE parseInt(SubSeq(digits, 1, Len(digits) - 1)) * 10
            + (IndexOfChar(DigitChars, CharAt(digits, Len(digits)), 1) - 1)

\* str.padStart(3, "0")
padStart3(str) ==
    IF Len(str) >= 3 THEN str ELSE IF Len(str) = 2 THEN "0" \o str ELSE "00" \o str

\* lastMatch.match(/\d+/)[0]: the first run of digits
RECURSIVE firstDigits(_)
firstDigits(str) ==
    IF Len(str) = 0 THEN ""
    ELSE IF isDigit(CharAt(str, 1))
         THEN SubSeq(str, 1, runLength(str, 1, [c \in CharsOf(str) |-> isDigit(c)],
                                       Len(str)))
         ELSE firstDigits(SubSeq(str, 2, Len(str)))

NoValue == "null"

\* mutant of extractSaleNumber: the first match is taken
extractSaleNumberFirst(text) ==
    LET re == <<Lit("sale"), Ws0, Alt(<<"no.", "no", "number", "">>), Ws0,
                Digits(1, 3)>>
        matches == matchAll(re, toLowerCase(text))
    IN  IF Len(matches) = 0 THEN NoValue
        ELSE LET num == parseInt(firstDigits(matches[1]))
             IN  IF num <= 999 THEN padStart3(ToString(num)) ELSE NoValue

\* extractSaleNumber(text): /sale\s*(?:no\.?|number)?\s*(\d{1,3})/gi, last match
extractSaleNumber(text) ==
    LET re == <<Lit("sale"), Ws0, Alt(<<"no.", "no", "number", "">>), Ws0,
                Digits(1, 3)>>
        matches == matchAll(re, toLowerCase(text))
    IN  IF Len(matches) = 0 THEN NoValue
        ELSE LET num == parseInt(firstDigits(matches[Len(matches)]))
             IN  IF num <= 999 THEN padStart3(ToString(num)) ELSE NoValue

ELEVATION_MAP == <<
    <<"uh", "UH">>, <<"u.h", "UH">>, <<"upper high", "UH">>,
    <<"wh", "WH">>, <<"w.h", "WH">>, <<"western high", "WH">>,
    <<"high", "H">>, <<"h ", "H">>,
    <<"medium", "M">>, <<"m ", "M">>, <<"med", "M">>,
    <<"low", "L">>, <<"l ", "L">>,
    <<"bt", "BT">>, <<"b.t", "BT">>, <<"bottom", "BT">> >>

DEPARTMENT_MAP == <<
    <<"valuation", "Valuation">>, <<"appraisal", "Valuation">>,
    <<"account", "Accounts">>, <<"accounts", "Accounts">>,
    <<"tax", "Accounts">>, <<"invoice", "Accounts">>, <<"vat", "Accounts">>,
    <<"technical", "IT">>, <<"it", "IT">>, <<"support", "IT">>,
    <<"system", "IT">>,
    <<"marketing", "Marketing">>, <<"inquiry", "Marketing">>,
    <<"general", "Marketing">> >>

\* the value of the first entry of the table whose key the text includes
RECURSIVE firstIncluded(_, _, _)
firstIncluded(table, n, cleanText) ==
    IF n > Len(table) THEN NoValue
    ELSE IF includes(cleanText, table[n][1]) THEN table[n][2]
         ELSE firstIncluded(table, n + 1, cleanText)

extractElevation(text) == firstIncluded(ELEVATION_MAP, 1, toLowerCase(text))
extractDepartment(text) == firstIncluded(DEPARTMENT_MAP, 1, toLowerCase(text))

extractEntities(text) ==
    [factory_codes |-> extractFactoryCodes(text),
     sale_number |-> extractSaleNumber(text),
     elevation |-> extractElevation(text),
     department |-> extractDepartment(text)]

(***************************************************************************)
(* Staff directory.  The sheet answers with rows of <<department, number,  *)
(* name>>, the first row being the header; a cell left empty is "".        *)
(***************************************************************************)
allDigits(str) == \A i \in 1..Len(str) : isDigit(CharAt(str, i))

\* /^\d+@c\.us$/
validNumber(str) ==
    /\ Len(str) > 5
    /\ SubSeq(str, Len(str) - 4, Len(str)) = "@c.us"
    /\ allDigits(SubSeq(str, 1, Len(str) - 5))

\* the phone number formatting of one row; "" when the row is skipped
cleanNumber(number) ==
    LET trimmed == trim(number)
        digitsOnly == removeChars(trimmed, [c \in CharsOf(trimmed) |-> ~isDigit(c)])
        formatted == IF includes(trimmed, "@c.us") THEN removeSpaces(trimmed)
                     ELSE IF Len(digitsOnly) > 0 THEN digitsOnly \o "@c.us"
                     ELSE ""
    IN  IF validNumber(formatted) THEN formatted ELSE ""

RECURSIVE directoryFromRows(_, _, _)
directoryFromRows(rows, i, directory) ==
    IF i > Len(rows) THEN directory
    ELSE LET row == rows[i]
             dept == toLowerCase(trim(row[1]))
             withDept == IF dept \in DOMAIN directory THEN directory
                         ELSE Put(directory, dept, <<>>)
             number == cleanNumber(row[2])
             member == [name |-> IF row[3] # "" THEN trim(row[3])
                                 ELSE "Staff Member",
                        number |-> number]
         IN  IF row[1] = "" \/ row[2] = ""
             THEN directoryFromRows(rows, i + 1, directory)
             ELSE IF number = ""
             THEN directoryFromRows(rows, i + 1, withDept)
             ELSE directoryFromRows(rows, i + 1,
                      [withDept EXCEPT ![dept] = Append(@, member)])

\* fetchStaffDirectory(), before the request to the sheet: the cached
\* directory is returned while it is fresh
directoryIsFresh(s) ==
    s.staffDirectory.loaded /\ (s.now - s.lastStaffFetch) < CACHE_DURATION

\* mutant of fetchStaffDirectoryAnswer: a request that fails empties the
\* cache and stamps the time of the request
fetchStaffDirectoryAnswerForgets(s, answer, fetchedAt) ==
    IF answer.throws \/ Len(answer.rows) <= 1
    THEN [s EXCEPT !.staffDirectory = [loaded |-> TRUE, byDept |-> EmptyMap],
                   !.lastStaffFetch = fetchedAt,
                   !.ret = EmptyMap]
    ELSE LET directory == directoryFromRows(answer.rows, 2, EmptyMap)
         IN  [s EXCEPT !.staffDirectory = [loaded |-> TRUE, byDept |-> directory],
                       !.lastStaffFetch = fetchedAt,
                       !.ret = directory]

\* fetchStaffDirectory(), once the sheet has answered a request made at
\* fetchedAt; ret is the directory returned to the caller
fetchStaffDirectoryAnswer(s, answer, fetchedAt) ==
    IF answer.throws THEN [s EXCEPT !.ret = EmptyMap]
    ELSE IF Len(answer.rows) <= 1 THEN [s EXCEPT !.ret = EmptyMap]
    ELSE LET directory == directoryFromRows(answer.rows, 2, EmptyMap)
         IN  [s EXCEPT !.staffDirectory = [loaded |-> TRUE, byDept |-> directory],
                       !.lastStaffFetch = fetchedAt,
                       !.ret = directory]

(***************************************************************************)
(* The texts the bot sends.  Only the forward to staff is given by its     *)
(* content, since staff quote it back; the other texts are named.          *)
(***************************************************************************)
senderNumber(from) ==
    IF includes(from, "@c.us") THEN SubSeq(from, 1, Len(from) - 5) ELSE from

forwardMessage(department, senderName, from, messageId, originalMessage) ==
    "NEW " \o toUpperCase(department) \o " REQUEST Client: " \o senderName
        \o " Number: +" \o senderNumber(from)
        \o " Message ID: " \o messageId
        \o " Message: " \o originalMessage
        \o " Reply to this message to send a response to the client."

clientReply(originalData, replyText) ==
    "RESPONSE FROM " \o toUpperCase(originalData.department)
        \o " DEPARTMENT From: " \o originalData.staffName
        \o " Response: " \o replyText

\* what the transport has sent: the recipient, the kind of text, the delivery
\* whose handler sent it, and for a forward or a forwarded reply the ticket
sent(to, kind, by, ticket, body) ==
    [to |-> to, kind |-> kind, by |-> by, ticket |-> ticket, body |-> body]

\* mutant of ticketMatches: the staff number of the ticket is not compared
ticketMatchesAnyStaff(msgData, staffNumber, quotedText) ==
    includes(quotedText, substring0(msgData.originalMessage, 50))

\* processStaffReply: the loop over Object.entries(forwardedMessages.messages)
ticketMatches(msgData, staffNumber, quotedText) ==
    /\ msgData.staffNumber = staffNumber
    /\ includes(quotedText, substring0(msgData.originalMessage, 50))

\* mutant of findMatch: the last matching ticket is taken
findMatchLast(store, staffNumber, quotedText) ==
    LET hits == {n \in 1..Len(store) :
                    ticketMatches(store[n], staffNumber, quotedText)}
    IN  IF hits = {} THEN 0 ELSE CHOOSE n \in hits : \A k \in hits : k <= n

\* the index of the entry the loop breaks at, 0 when it ends without a match
findMatch(store, staffNumber, quotedText) ==
    LET hits == {n \in 1..Len(store) :
                    ticketMatches(store[n], staffNumber, quotedText)}
    IN  IF hits = {} THEN 0 ELSE CHOOSE n \in hits : \A k \in hits : n <= k

(***************************************************************************)
(* The world the handler is checked in: who writes, what they write, and   *)
(* what the staff sheet holds.                                             *)
(***************************************************************************)
Client == "94771000001@c.us"
StaffOne == "94711000001@c.us"
StaffTwo == "94711000002@c.us"
Group == "120363000001@g.us"

MuteBodies == {"mute bot", "unmute bot", "activate bot", "help"}
RequestBody == "accounts invoice for may"
StaffBody == "ok noted"
GeneralBody == "xyz"
IrrelevantBody == "any job vacancy"
NoCodeBody == "factory data please"
NoDepartmentBody == "contact me"
SixCodesBody == "mf1234 mf1235 mf1236 mf1237 mf1238 mf1239"
InvalidBodies == {NoCodeBody, NoDepartmentBody, SixCodesBody}
ElevationBody == "elevation average"
MarketBody == "market report"
SaleBody == "sale 45 elevation average"
QueryBodies == {ElevationBody, MarketBody, SaleBody}
ModelBodies ==
    MuteBodies \cup {RequestBody, StaffBody, GeneralBody, IrrelevantBody}
        \cup InvalidBodies \cup QueryBodies

\* what sheets.spreadsheets.values.get gives: an error, or the sheet of the
\* staff
SheetRows ==
    << <<"Department", "Number", "Name">>,
       <<"Accounts", "+94 711 000 001", "Asha">>,
       <<"accounts ", " 94711000002@c.us", "">>,
       <<"IT", "n/a", "Ravi">> >>

SheetAnswers ==
    {[throws |-> TRUE, rows |-> <<>>],
     [throws |-> FALSE, rows |-> SheetRows]}

\* sanitizeInput on the bodies of the model, computed once
sanitizeTable == [b \in ModelBodies |-> sanitizeInput(b)]

sanitizeBody(body) == sanitizeTable[body]

\* classify, extractEntities and toLowerCase on the texts of the model,
\* computed once
classifyTable ==
    [t \in {sanitizeInput(b) : b \in ModelBodies} |->
        [intent |-> classify(t), entities |-> extractEntities(t),
         lowerText |-> toLowerCase(t)]]

\* what the handler computes from a text of the model
classified(text) == classifyTable[text]

(***************************************************************************)
(* The message handler, client.on("message", async (msg) => ...).          *)
(*                                                                         *)
(* A handler runs without interruption up to an await of the transport, of *)
(* the sheet or of the drive, and is then suspended until the awaited call *)
(* settles; other handlers and the timers run in between.  A suspended     *)
(* handler is a record: pc names the call it awaits, script is what it     *)
(* does once the call has returned, the other fields are its locals.       *)
(***************************************************************************)
NoTicket == [id |-> "", clientNumber |-> "", staffNumber |-> "", staffName |-> "",
             department |-> "", clientName |-> "", originalMessage |-> "",
             timestamp |-> 0]

\* the steps of a script
Reply(label) == [op |-> "reply", label |-> label, success |-> TRUE, elapsed |-> FALSE]
Fetch(what) == [op |-> "fetch", label |-> what, success |-> TRUE, elapsed |-> FALSE]
Format == [op |-> "format", label |-> "", success |-> TRUE, elapsed |-> FALSE]
Route == [op |-> "route", label |-> "", success |-> TRUE, elapsed |-> FALSE]
RecordBotResponse ==
    [op |-> "recordBotResponse", label |-> "", success |-> TRUE, elapsed |-> FALSE]
\* analytics.trackMessage(userId, intent, responseTime, success), and with
\* elapsed analytics.trackMessage(userId, intent, Date.now() - startTime, success)
Track(intent, success, elapsed) ==
    [op |-> "track", label |-> intent, success |-> success, elapsed |-> elapsed]

Answered(label, intent, success, elapsed) ==
    <<Reply(label), RecordBotResponse, Track(intent, success, elapsed)>>

NoEntities ==
    [factory_codes |-> <<>>, sale_number |-> NoValue, elevation |-> NoValue,
     department |-> NoValue]

\* the handler of the id-th delivery, at its first statement
newHandler(id, msg, startTime) ==
    [id |-> id, msg |-> msg, userId |-> msg.from, startTime |-> startTime,
     text |-> sanitizeBody(msg.body), intent |-> "", entities |-> NoEntities,
     lowerText |-> "",
     isUnmuteCommand |-> FALSE, responseTime |-> 0,
     pc |-> "start", script |-> <<>>,
     originalData |-> NoTicket,
     fetchedAt |-> 0, department |-> "", messageId |-> "", forwardMessage |-> "",
     staff |-> <<>>, member |-> 0, successCount |-> 0,
     isStaffReply |-> <<>>, routed |-> <<>>]

includesAny(str, subs) == \E sub \in subs : includes(str, sub)

\* const isUnmuteCommand = intent === "bot_control" && (...)
isUnmute(intent, lowerText) ==
    /\ intent = "bot_control"
    /\ includesAny(lowerText, {"unmute", "activate", "resume", "enable", "start"})

\* mutant of isMute: the mute words are not looked for inside "unmute"
isMuteButNotUnmute(lowerText) ==
    /\ includesAny(lowerText, {"stop", "mute", "pause", "disable"})
    /\ ~includes(lowerText, "unmute")

\* lowerText.includes('stop') || ... in the bot_control branch
isMute(lowerText) == includesAny(lowerText, {"stop", "mute", "pause", "disable"})

\* what follows the answer of a fetch
afterFetch(what, intent, found) ==
    IF what = "factory"
    THEN IF found THEN <<Format>> \o Answered("factory data", intent, TRUE, TRUE)
         ELSE Answered("no data found", intent, FALSE, TRUE)
    ELSE IF what = "elevation"
    THEN IF found THEN Answered("elevation averages", intent, TRUE, TRUE)
         ELSE Answered("no elevation data", intent, FALSE, TRUE)
    ELSE IF found
         THEN <<Reply("market report")>> \o Answered("report sent", intent, TRUE, TRUE)
         ELSE Answered("report not found", intent, FALSE, TRUE)

\* what follows the return of routeToDepartment
afterRoute(intent, routed) ==
    IF routed THEN Answered("forwarded", intent, TRUE, TRUE)
    ELSE Answered("unable to route", intent, FALSE, TRUE)

\* a handler and the program state it has reached: at an await (pc names the
\* call), at its end (pc is "done"), or about to go on with its script (pc is
\* "run")
Ran(s, h) == [s |-> s, h |-> h]
Finished(s, h) == Ran(s, [h EXCEPT !.pc = "done", !.script = <<>>])
Going(s, h, script) == Ran(s, [h EXCEPT !.pc = "run", !.script = script])

\* routeToDepartment returns routed to the handler
routeReturn(s, h, routed) ==
    Going(s, [h EXCEPT !.routed = <<routed>>], afterRoute(h.intent, routed))

\* mutant of routedSome: the call reports success whatever was sent
routedAlways(successCount) == TRUE

\* return successCount > 0
routedSome(successCount) == successCount > 0

\* const messageId = `msg_${Date.now()}_${crypto.randomBytes(4).toString('hex')}`
newMessageId(s) == "msg_" \o ToString(s.now) \o "_" \o ToString(s.nextId)

\* routeToDepartment(msg, department, text, userId), once it has the directory
routeWithDirectory(s, h, directory) ==
    IF (IF toLowerCase(h.department) \in DOMAIN directory
        THEN Len(directory[toLowerCase(h.department)]) = 0 ELSE TRUE)
    THEN routeReturn(s, h, FALSE)
    ELSE Ran([s EXCEPT !.nextId = @ + 1],
             [h EXCEPT !.pc = "sendToStaff",
                       !.staff = directory[toLowerCase(h.department)],
                       !.messageId = newMessageId(s),
                       !.forwardMessage =
                           forwardMessage(h.department, "Client", h.msg.from,
                                          newMessageId(s), h.text),
                       !.member = 1, !.successCount = 0])

\* routeToDepartment, from its first statement
routeToDepartment(s, h) ==
    IF directoryIsFresh(s) THEN routeWithDirectory(s, h, s.staffDirectory.byDept)
    ELSE Ran(s, [h EXCEPT !.pc = "sheet", !.fetchedAt = s.now])

\* the handler does the next step of its script
scriptStep(s, h) ==
    IF Len(h.script) = 0 THEN Finished(s, h)
    ELSE CASE Head(h.script).op = "recordBotResponse" ->
                  Going(recordBotResponse(s, h.userId), h, Tail(h.script))
           [] Head(h.script).op = "track" ->
                  Going(trackMessage(s, h.userId, Head(h.script).label,
                                     IF Head(h.script).elapsed
                                     THEN s.now - h.startTime ELSE h.responseTime,
                                     Head(h.script).success),
                        h, Tail(h.script))
           [] Head(h.script).op = "route" ->
                  routeToDepartment(s, [h EXCEPT !.script = Tail(@)])
           [] OTHER -> Ran(s, [h EXCEPT !.pc = Head(h.script).op])

\* the handler runs up to its next await or to its end
RECURSIVE runHandler(_)
runHandler(r) == IF r.h.pc = "run" THEN runHandler(scriptStep(r.s, r.h)) ELSE r

\* mutant of handlerCatch: the failure is recorded and the handler ends
handlerCatchSilent(s, h) ==
    Finished(trackMessage(s, h.userId, "error", s.now - h.startTime, FALSE), h)

\* the catch block of the handler, up to its msg.reply
handlerCatch(s, h) ==
    Ran(trackMessage(s, h.userId, "error", s.now - h.startTime, FALSE),
        [h EXCEPT !.pc = "errorReply", !.script = <<>>])

\* mutant of scriptOf: a query without a sale number is answered
scriptOfAsksForSale(s, h) ==
    LET intent == h.intent
        saleNo == h.entities.sale_number
    IN  IF intent = "irrelevant"
        THEN IF shouldRespondToGeneral(s, h.userId)
             THEN Answered("not a tea query", intent, TRUE, FALSE) ELSE <<>>
        ELSE IF intent = "casual_conversation" THEN <<>>
        ELSE IF intent = "help" THEN Answered("welcome", intent, TRUE, FALSE)
        ELSE IF intent = "contact" THEN Answered("contact info", intent, TRUE, FALSE)
        ELSE IF intent = "status" THEN Answered("bot status", intent, TRUE, FALSE)
        ELSE IF intent = "factory_query"
        THEN IF Len(h.entities.factory_codes) = 0
             THEN Answered("provide factory codes", intent, FALSE, TRUE)
             ELSE IF Len(h.entities.factory_codes) > 5
             THEN Answered("maximum 5 codes", intent, FALSE, TRUE)
             ELSE <<Reply("fetching"), Fetch("factory")>>
        ELSE IF intent = "elevation_query" /\ saleNo # NoValue
        THEN <<Reply("fetching"), Fetch("elevation")>>
        ELSE IF intent = "market_report" /\ saleNo # NoValue
        THEN <<Reply("fetching"), Fetch("market")>>
        ELSE IF intent = "department_contact"
        THEN IF h.entities.department = NoValue
             THEN Answered("department contacts", intent, FALSE, TRUE)
             ELSE <<Reply("connecting"), Route>>
        ELSE IF intent \in {"elevation_query", "market_report"}
        THEN Answered("provide sale number", intent, FALSE, TRUE)
        ELSE <<>>

\* the script of the handler from "Handle irrelevant queries" on, for the
\* intents that change no state before their first reply
scriptOf(s, h) ==
    LET intent == h.intent
        saleNo == h.entities.sale_number
    IN  IF intent = "irrelevant"
        THEN IF shouldRespondToGeneral(s, h.userId)
             THEN Answered("not a tea query", intent, TRUE, FALSE) ELSE <<>>
        ELSE IF intent = "casual_conversation" THEN <<>>
        ELSE IF intent = "help" THEN Answered("welcome", intent, TRUE, FALSE)
        ELSE IF intent = "contact" THEN Answered("contact info", intent, TRUE, FALSE)
        ELSE IF intent = "status" THEN Answered("bot status", intent, TRUE, FALSE)
        ELSE IF intent = "factory_query"
        THEN IF Len(h.entities.factory_codes) = 0
             THEN Answered("provide factory codes", intent, FALSE, TRUE)
             ELSE IF Len(h.entities.factory_codes) > 5
             THEN Answered("maximum 5 codes", intent, FALSE, TRUE)
             ELSE <<Reply("fetching"), Fetch("factory")>>
        ELSE IF intent = "elevation_query" /\ saleNo # NoValue
        THEN <<Reply("fetching"), Fetch("elevation")>>
        ELSE IF intent = "market_report" /\ saleNo # NoValue
        THEN <<Reply("fetching"), Fetch("market")>>
        ELSE IF intent = "department_contact"
        THEN IF h.entities.department = NoValue
             THEN Answered("department contacts", intent, FALSE, TRUE)
             ELSE <<Reply("connecting"), Route>>
        ELSE <<>>

\* the branch of the general intent, welcome.ret being what shouldSendWelcome
\* has answered
dispatchGeneral(welcome, s, h) ==
    IF welcome.ret THEN Going(welcome, h, Answered("welcome", h.intent, TRUE, TRUE))
    ELSE IF shouldRespondToGeneral(s, h.userId)
    THEN Going(s, h, Answered("here if you need", h.intent, TRUE, TRUE))
    ELSE Finished(s, h)

\* isUnmuteCommand, of what the handler computes from a text
isUnmuteText(c) == isUnmute(c.intent, c.lowerText)

\* the handler from "Handle bot control commands" on
dispatch(s, h) ==
    IF h.intent = "bot_control" /\ isMute(h.lowerText)
    THEN Going(setBotActive(s, h.userId, FALSE), h,
               <<Reply("Bot Muted"), Track(h.intent, TRUE, FALSE)>>)
    ELSE IF h.intent = "bot_control" /\ h.isUnmuteCommand
    THEN Going(setBotActive(s, h.userId, TRUE), h,
               <<Reply("Bot Activated"), Track(h.intent, TRUE, FALSE)>>)
    ELSE IF h.intent = "general"
    THEN dispatchGeneral(shouldSendWelcome(s, h.userId), s, h)
    ELSE Going(s, [h EXCEPT !.department = h.entities.department], scriptOf(s, h))

\* const isStaffReply = await processStaffReply(msg), and what the handler
\* does with it
staffReplyReturn(s, h, result) ==
    IF result
    THEN Going(s, [h EXCEPT !.isStaffReply = <<TRUE>>],
               <<Track("staff_reply", TRUE, TRUE)>>)
    ELSE dispatch(s, [h EXCEPT !.isStaffReply = <<FALSE>>])

\* `${userId}_${text}_${msg.timestamp}`; the md5 digest of it is taken to be
\* as good as the string itself
messageHash(userId, text, timestamp) ==
    userId \o "_" \o text \o "_" \o ToString(timestamp)

\* the handler from "Check for staff reply" on, h holding intent and entities
handlerClassified(tracked, h) ==
    IF ~isBotActive(tracked, h.userId) /\ ~h.isUnmuteCommand
    THEN Finished(incrementIgnoredMessages(tracked, h.userId), h)
    ELSE IF ~h.msg.hasQuotedMsg THEN staffReplyReturn(tracked, h, FALSE)
    ELSE Ran(tracked, [h EXCEPT !.pc = "getQuotedMessage"])

\* the locals the handler computes from the text
withClassified(h, at, c) ==
    [h EXCEPT !.intent = c.intent,
              !.entities = c.entities,
              !.lowerText = c.lowerText,
              !.isUnmuteCommand = isUnmute(c.intent, c.lowerText),
              !.responseTime = at - h.startTime]

classifyHandler(h, at) == withClassified(h, at, classified(h.text))

\* mutant of handlerDeduped: the interaction of a duplicate is recorded too
handlerDedupedCounts(deduped, h) ==
    IF deduped.ret THEN Finished(recordInteraction(deduped, h.userId), h)
    ELSE handlerClassified(recordInteraction(deduped, h.userId),
                           classifyHandler(h, deduped.now))

\* the handler after messageCache.isDuplicate, deduped.ret being its answer
handlerDeduped(deduped, h) ==
    IF deduped.ret THEN Finished(deduped, h)
    ELSE handlerClassified(recordInteraction(deduped, h.userId),
                           classifyHandler(h, deduped.now))

\* the handler after rateLimiter.checkLimit, limited.ret being its answer
handlerLimited(limited, h) ==
    IF ~limited.ret
    THEN Going(limited, h,
               (IF getViolations(limited, h.userId) % 5 = 1
                THEN <<Reply("rate limit exceeded")>> ELSE <<>>)
                   \o <<Track("rate_limited", FALSE, TRUE)>>)
    ELSE handlerDeduped(
             isDuplicate(limited, h.userId,
                         messageHash(h.userId, h.text, h.msg.timestamp)), h)

\* mutant of handlerStart: only the messages of groups are left out
handlerStartGroupsOnly(s, h) ==
    IF includes(h.msg.from, "@g.us") THEN Finished(s, h)
    ELSE handlerLimited(checkLimit(s, h.userId), h)

\* the handler from its first statement on
handlerStart(s, h) ==
    IF includes(h.msg.from, "@g.us") \/ h.msg.fromMe THEN Finished(s, h)
    ELSE handlerLimited(checkLimit(s, h.userId), h)

\* how the call a handler awaits can settle
Outcomes(h) ==
    IF h.pc = "fetch" THEN {"found", "none"}
    ELSE IF h.pc = "format" THEN {"ok"}
    ELSE IF h.pc = "sheet" THEN SheetAnswers
    ELSE {"ok", "throw"}

\* processStaffReply(msg) once the quoted message is there
staffReplyQuoted(s, h, n) ==
    IF n = 0 THEN staffReplyReturn(s, h, FALSE)
    ELSE Ran(s, [h EXCEPT !.pc = "sendToClient", !.originalData = s.messages[n]])

\* processStaffReply(msg) once the reply has gone to the client
staffReplySent(s, h) ==
    staffReplyReturn(
        removeMessage(
            [s EXCEPT !.outbox =
                Append(@, sent(h.originalData.clientNumber, "staff reply", h.id,
                               h.originalData.id,
                               clientReply(h.originalData, h.msg.body)))],
            h.originalData.id),
        h, TRUE)

\* routeToDepartment: the loop goes to the next member, or the call returns
routeNextMember(s, h) ==
    IF h.member < Len(h.staff) THEN Ran(s, [h EXCEPT !.member = @ + 1])
    ELSE routeReturn(s, h, routedSome(h.successCount))

\* mutant of routeMemberSent: the ticket names the first member of the
\* department
routeMemberSentFirst(s, h) ==
    addMessage([s EXCEPT !.outbox =
                   Append(@, sent(h.staff[h.member].number, "forward", h.id,
                                  h.messageId, h.forwardMessage))],
               h.messageId,
               [clientNumber |-> h.msg.from,
                staffNumber |-> h.staff[1].number,
                staffName |-> h.staff[1].name,
                department |-> h.department,
                clientName |-> "Client", originalMessage |-> h.text])

\* routeToDepartment: the forward has gone to the member
routeMemberSent(s, h) ==
    addMessage([s EXCEPT !.outbox =
                   Append(@, sent(h.staff[h.member].number, "forward", h.id,
                                  h.messageId, h.forwardMessage))],
               h.messageId,
               [clientNumber |-> h.msg.from,
                staffNumber |-> h.staff[h.member].number,
                staffName |-> h.staff[h.member].name,
                department |-> h.department,
                clientName |-> "Client", originalMessage |-> h.text])

\* mutant of routeMemberDone: a send that fails ends the loop
routeMemberDoneStops(s, h, ok) ==
    IF ok THEN routeNextMember(routeMemberSent(s, h),
                               [h EXCEPT !.successCount = @ + 1])
    ELSE routeReturn(s, h, routedSome(h.successCount))

\* routeToDepartment: the body of the loop over the members after the send
routeMemberDone(s, h, ok) ==
    IF ok THEN routeNextMember(routeMemberSent(s, h),
                               [h EXCEPT !.successCount = @ + 1])
    ELSE routeNextMember(s, h)

\* routeToDepartment once fetchStaffDirectory has returned
routeWithAnswer(answered, h) == routeWithDirectory(answered, h, answered.ret)

\* msg.reply(...) has sent the text named label
replied(s, h, label) ==
    [s EXCEPT !.outbox = Append(@, sent(h.userId, label, h.id, "", ""))]

\* a suspended handler goes on when the call it awaits has settled
handlerResume(s, h, outcome) ==
    CASE h.pc = "reply" ->
             IF outcome = "ok"
             THEN Going(replied(s, h, Head(h.script).label), h, Tail(h.script))
             ELSE handlerCatch(s, h)
      [] h.pc = "fetch" ->
             Going(s, h, afterFetch(Head(h.script).label, h.intent, outcome = "found"))
      [] h.pc = "format" -> Going(s, h, Tail(h.script))
      [] h.pc = "errorReply" ->
             IF outcome = "ok" THEN Finished(replied(s, h, "error occurred"), h)
             ELSE Finished(s, h)
      [] h.pc = "getQuotedMessage" ->
             IF outcome = "ok"
             THEN staffReplyQuoted(s, h, findMatch(s.messages, h.msg.from, h.msg.quoted))
             ELSE staffReplyReturn(s, h, FALSE)
      [] h.pc = "sendToClient" ->
             IF outcome = "ok" THEN staffReplySent(s, h)
             ELSE staffReplyReturn(s, h, FALSE)
      [] h.pc = "sheet" ->
             routeWithAnswer(fetchStaffDirectoryAnswer(s, outcome, h.fetchedAt), h)
      [] h.pc = "sendToStaff" -> routeMemberDone(s, h, outcome = "ok")

(***************************************************************************)
(* Observers of the message handler.                                       *)
(***************************************************************************)
\* the event a message is a delivery of
eventOf(msg) == <<msg.from, sanitizeBody(msg.body), msg.timestamp>>

ignoredMessagesOf(s, userId) ==
    IF userId \in DOMAIN s.interactions
    THEN s.interactions[userId].ignoredMessages ELSE 0

\* the ticket a message quotes the forward of, by the Message ID the forward
\* carries; "" when the message quotes no forward sent to its sender
quotedId(msg) ==
    LET ids == {outbox[n].ticket : n \in {k \in 1..Len(outbox) :
                    /\ outbox[k].kind = "forward"
                    /\ outbox[k].to = msg.from
                    /\ outbox[k].body = msg.quoted}}
    IN  IF msg.hasQuotedMsg /\ ids # {} THEN CHOOSE id \in ids : TRUE ELSE ""

\* the quoted ticket is in the store under the name of the sender
isHeld(msg, ticketId) ==
    \E n \in 1..Len(messages) :
        messages[n].id = ticketId /\ messages[n].staffNumber = msg.from

\* a reply to the quoted ticket has gone to the client before
isAnswered(ticketId) ==
    \E n \in 1..Len(outbox) :
        outbox[n].kind = "staff reply" /\ outbox[n].ticket = ticketId

\* the tickets of the sender, other than the one quoted, whose request text is
\* found in the quoted text as well
otherMatches(msg, ticketId) ==
    {messages[n].id : n \in {k \in 1..Len(messages) :
        /\ messages[k].id # ticketId
        /\ messages[k].staffNumber = msg.from
        /\ includes(msg.quoted, substring0(messages[k].originalMessage, 50))}}

\* a delivery of the event has been processed before
processedBefore(event) ==
    IF event \in DOMAIN processedAt THEN processedAt[event].at >= 0 ELSE FALSE

\* what one delivery did before its handler was suspended or ended, c being
\* what the handler computes from the text
dlvClassified(msg, r, c) ==
    LET userId == msg.from
        answer == checkLimit(Cur, userId)
        event == eventOf(msg)
    IN  [id |-> delivered + 1, from |-> userId, body |-> msg.body,
         fromMe |-> msg.fromMe,
         at |-> now,
         admitted |-> answer.ret,
         sinceProcessed |-> IF processedBefore(event)
                            THEN now - processedAt[event].at ELSE -1,
         cached |-> cacheKey(userId, messageHash(userId, r.h.text,
                                                 msg.timestamp)) \in DOMAIN cache,
         muted |-> ~isBotActive(Cur, userId),
         quotedHeld |-> isHeld(msg, quotedId(msg)),
         intent |-> c.intent,
         unmuteCommand |-> isUnmuteText(c),
         activeAfter |-> isBotActive(r.s, userId),
         ignoredBefore |-> ignoredMessagesOf(Cur, userId),
         ignoredAfter |-> ignoredMessagesOf(r.s, userId),
         touched |-> \/ r.s.interactions # interactions
                     \/ r.s.analytics # analytics
                     \/ r.s.messages # messages
                     \/ r.s.outbox # outbox,
         suspended |-> r.h.pc # "done"]

dlvAfter(msg, r) == dlvClassified(msg, r, classified(r.h.text))

NoDelivery ==
    [id |-> 0, from |-> "", body |-> "", fromMe |-> FALSE, at |-> 0,
     admitted |-> FALSE, sinceProcessed |-> -1, cached |-> FALSE, muted |-> FALSE,
     quotedHeld |-> FALSE, intent |-> "",
     unmuteCommand |-> FALSE, activeAfter |-> TRUE, ignoredBefore |-> 0,
     ignoredAfter |-> 0, touched |-> FALSE, suspended |-> FALSE]

\* a delivery is processed when it passes the rate limiter and the dedup cache;
\* it has an effect when it changes what the bot keeps or sends, or leaves a
\* handler behind that can
processedAtAfter(msg, r, d) ==
    LET event == eventOf(msg)
        before == IF event \in DOMAIN processedAt THEN processedAt[event]
                  ELSE [at |-> -1, effects |-> 0]
        effect == d.touched \/ d.suspended
    IN  Put(processedAt, event,
            [at |-> IF r.h.intent # "" THEN now ELSE before.at,
             effects |-> IF effect THEN before.effects + 1 ELSE before.effects])

NoStaffReply ==
    [by |-> 0, from |-> "", result |-> FALSE, matched |-> "", quotedId |-> "",
     held |-> FALSE, answered |-> FALSE, others |-> {}, alone |-> FALSE,
     faulted |-> FALSE, removed |-> FALSE, replies |-> 0, client |-> "",
     repliedTo |-> {}, kept |-> TRUE, intent |-> "", next |-> "", at |-> 0,
     lastBotResponse |-> 0, gone |-> FALSE, staff |-> ""]

\* the return of processStaffReply in the handler r.h, if it returned in this
\* step; next is what the handler does after it: the text of the reply it
\* awaits, or the call it awaits, or "done"
srObsAfter(h, r, w) ==
    IF r.h.isStaffReply # h.isStaffReply
    THEN [by |-> h.id, from |-> h.msg.from, result |-> r.h.isStaffReply[1],
          matched |-> r.h.originalData.id, quotedId |-> w.quotedId,
          held |-> w.held, answered |-> w.answered,
          others |-> w.others, alone |-> w.alone, faulted |-> w.faulted,
          removed |-> messageIndex(r.s.messages, r.h.originalData.id) = 0,
          replies |-> Cardinality({n \in 1..Len(r.s.outbox) :
                          /\ r.s.outbox[n].kind = "staff reply"
                          /\ r.s.outbox[n].by = h.id}),
          client |-> r.h.originalData.clientNumber,
          repliedTo |-> {r.s.outbox[n].to : n \in {k \in 1..Len(r.s.outbox) :
                          /\ r.s.outbox[k].kind = "staff reply"
                          /\ r.s.outbox[k].by = h.id}},
          kept |-> r.s.messages = messages,
          intent |-> r.h.intent,
          next |-> IF r.h.pc = "reply" THEN Head(r.h.script).label ELSE r.h.pc,
          at |-> now,
          lastBotResponse |-> IF h.userId \in DOMAIN interactions
                              THEN interactions[h.userId].lastBotResponse ELSE 0,
          gone |-> w.gone,
          staff |-> r.h.originalData.staffNumber]
    ELSE srObs

NoRoute ==
    [by |-> 0, routed |-> FALSE, members |-> 0, reached |-> 0, messageId |-> "",
     alone |-> FALSE, forwarded |-> {}, holders |-> {}, added |-> {},
     staff |-> {}, failed |-> {}]

\* the return of routeToDepartment in the handler r.h, if it returned in this
\* step: the members the forward has gone to, the members that hold a ticket
\* of the call, and the tickets the store has gained since the delivery
rtObsAfter(h, r, w) ==
    IF r.h.routed # h.routed
    THEN [by |-> h.id, routed |-> r.h.routed[1], members |-> Len(r.h.staff),
          reached |-> r.h.successCount, messageId |-> r.h.messageId,
          alone |-> w.alone,
          forwarded |-> {r.s.outbox[n].to : n \in {k \in 1..Len(r.s.outbox) :
                            /\ r.s.outbox[k].kind = "forward"
                            /\ r.s.outbox[k].by = h.id}},
          holders |-> {r.s.messages[n].staffNumber :
                          n \in {k \in 1..Len(r.s.messages) :
                                    r.s.messages[k].id = r.h.messageId}},
          added |-> {r.s.messages[n].id : n \in 1..Len(r.s.messages)}
                        \ w.tickets,
          staff |-> {r.h.staff[n].number : n \in 1..Len(r.h.staff)},
          failed |-> w.failedTo]
    ELSE rtObs

NoMatch == [by |-> 0, matched |-> 0, matching |-> {}, stamps |-> <<>>]

\* the ticket processStaffReply has picked in this step, among those that match
matchObsAfter(h, r) ==
    IF h.pc = "getQuotedMessage" /\ r.h.pc = "sendToClient"
    THEN [by |-> h.id,
          matched |-> messageIndex(messages, r.h.originalData.id),
          matching |-> {n \in 1..Len(messages) :
                           /\ messages[n].staffNumber = h.msg.from
                           /\ includes(h.msg.quoted,
                                  substring0(messages[n].originalMessage, 50))},
          stamps |-> [n \in 1..Len(messages) |-> messages[n].timestamp]]
    ELSE matchObs

\* the welcomes the branch of the general intent has decided to send: the
\* handler r.h has left processStaffReply in this step, has found the intent
\* general and has gone to the reply of the welcome
welcomedAfter(h, r) ==
    IF /\ r.h.isStaffReply # h.isStaffReply
       /\ r.h.intent = "general"
       /\ r.h.pc = "reply"
       /\ Head(r.h.script).label = "welcome"
    THEN Append(welcomed, [by |-> h.id, user |-> h.userId, at |-> now])
    ELSE welcomed

\* a call of shouldSendWelcome or of shouldRespondToGeneral, as observed: what
\* the tracker held of the sender before the call, what the call returned and
\* stamped, and what the same call returns when made again at once
NoThrottleCall ==
    [op |-> "", user |-> "", at |-> 0, known |-> FALSE, lastWelcome |-> 0,
     lastBotResponse |-> 0, result |-> FALSE, stamped |-> 0, again |-> FALSE]

throttleCall(op, u, r, again) ==
    [op |-> op, user |-> u, at |-> now, known |-> u \in DOMAIN interactions,
     lastWelcome |-> IF u \in DOMAIN interactions
                     THEN interactions[u].lastWelcome ELSE 0,
     lastBotResponse |-> IF u \in DOMAIN interactions
                         THEN interactions[u].lastBotResponse ELSE 0,
     result |-> r.ret,
     stamped |-> IF u \in DOMAIN r.interactions
                 THEN r.interactions[u].lastWelcome ELSE 0,
     again |-> again.ret]

\* a sweep of the tickets, as observed: when it ran, the store before it and
\* after it, and the tickets that sweeps have taken so far
NoSweep == [at |-> 0, before |-> <<>>, after |-> <<>>, swept |-> {}]

ticketIds(store) == {store[n].id : n \in 1..Len(store)}

swObsAfter(r) ==
    [at |-> now, before |-> messages, after |-> r.messages,
     swept |-> swObs.swept \cup (ticketIds(messages) \ ticketIds(r.messages))]

\* the stores the bot keeps in files, and the limiter it does not
storesOf(s) ==
    [cache |-> s.cache, interactions |-> s.interactions, messages |-> s.messages,
     analytics |-> s.analytics]

\* a shutdown and the restart after it, as observed: the stores when the
\* signal came, the stores when the process ended, the stores and the limiter
\* when the process was up again
NoRestart ==
    [restarts |-> 0, atSignal |-> storesOf(NoFiles), atExit |-> storesOf(NoFiles),
     restored |-> storesOf(NoFiles), limiter |-> EmptyMap, busy |-> FALSE]

\* the classifier as observed: the text it was given last, the intent and the
\* winning score of classify, the entities of extractEntities, and the evidence
\* the score was made of
NoText ==
    [calls |-> 0, fragments |-> 0, text |-> "", intent |-> "", score |-> 0,
     entities |-> [factory_codes |-> <<>>, sale_number |-> NoValue,
                   elevation |-> NoValue, department |-> NoValue],
     keywordHits |-> 0, patternHits |-> 0]

\* a trackMessage call as observed: the samples before and after it
NoSample ==
    [calls |-> 0, before |-> <<>>, after |-> <<>>,
     sample |-> [timestamp |-> 0, response_time |-> 0, intent |-> "",
                 success |-> TRUE]]

(***************************************************************************)
(* Observer of the rate limiter: the window as the contract describes it.  *)
(* A sender's window opens with the sender's first call, or with the first *)
(* call made more than windowMs after the current window opened.           *)
(***************************************************************************)
rlWinExpired(u) ==
    IF u \in DOMAIN rlWin THEN now > rlWin[u].start + windowMs ELSE TRUE

rlWinAfterCall(u) ==
    IF rlWinExpired(u)
    THEN Put(rlWin, u, [start |-> now, calls |-> 1, windows |->
                          IF u \in DOMAIN rlWin THEN rlWin[u].windows + 1 ELSE 1])
    ELSE Put(rlWin, u, [rlWin[u] EXCEPT !.calls = @ + 1])

\* the same calls of checkLimit on a limiter whose cleanup never runs: its
\* windows, its verdict on the last call, and whether the window of the caller
\* had been dropped from the limiter of the program when the call came
NoFree == [limits |-> EmptyMap, result |-> TRUE, dropped |-> FALSE]

rlFreeAfterCall(u) ==
    LET r == checkLimit([Cur EXCEPT !.userLimits = rlFree.limits], u)
    IN  [limits |-> r.userLimits, result |-> r.ret,
         dropped |-> u \in DOMAIN rlFree.limits /\ u \notin DOMAIN userLimits]

(***************************************************************************)
(* Observer of the dedup cache.  Per key it keeps the time of the call     *)
(* that opened the current suppression period, counted in two ways: by the *)
(* clock alone (a period ends when MESSAGE_CACHE_DURATION has elapsed),    *)
(* and by the sweeps (a period ends when a sweep runs after that time).    *)
(***************************************************************************)
dupExpectedByTTL(key) ==
    IF key \in DOMAIN dupFirst
    THEN now - dupFirst[key].ttlAt <= MESSAGE_CACHE_DURATION
    ELSE FALSE

dupExpected(key) ==
    IF key \in DOMAIN dupFirst THEN ~dupFirst[key].swept ELSE FALSE

dupCalls(key) == IF key \in DOMAIN dupFirst THEN dupFirst[key].calls ELSE 0

dupFirstAfterCall(key) ==
    Put(dupFirst, key,
        [at |-> IF dupExpected(key) THEN dupFirst[key].at ELSE now,
         swept |-> FALSE,
         ttlAt |-> IF dupExpectedByTTL(key) THEN dupFirst[key].ttlAt ELSE now,
         calls |-> dupCalls(key) + 1])

dupFirstAfterSweep ==
    [k \in DOMAIN dupFirst |->
        [dupFirst[k] EXCEPT !.swept =
            @ \/ now - dupFirst[k].at > MESSAGE_CACHE_DURATION]]

(***************************************************************************)
(* Initial state: the process has just started on a fresh installation     *)
(***************************************************************************)
Init ==
    /\ now = 1
    /\ userLimits = EmptyMap
    /\ violations = EmptyMap
    /\ disk = NoFiles
    /\ cache = disk.cache
    /\ interactions = disk.interactions
    /\ messages = disk.messages
    /\ analytics = loadAnalytics(disk.analytics)
    /\ phase = "running"
    /\ staffDirectory = NoDirectory
    /\ lastStaffFetch = 0
    /\ nextId = 1
    /\ handlers = EmptyMap
    /\ outbox = <<>>
    /\ delivered = 0
    /\ faults = 0
    /\ dlv = NoDelivery
    /\ processedAt = EmptyMap
    /\ watch = EmptyMap
    /\ srObs = NoStaffReply
    /\ rtObs = NoRoute
    /\ matchObs = NoMatch
    /\ welcomed = <<>>
    /\ ticks = 0
    /\ rlObs = [user |-> "", result |-> FALSE]
    /\ rlWin = EmptyMap
    /\ rlFree = NoFree
    /\ dupObs = [key |-> <<>>, result |-> FALSE, calls |-> 0,
                 expected |-> FALSE, expectedByTTL |-> FALSE]
    /\ dupFirst = EmptyMap
    /\ utObs = NoThrottleCall
    /\ swObs = NoSweep
    /\ rsObs = NoRestart
    /\ nlpObs = NoText
    /\ tmObs = NoSample

(***************************************************************************)
(* The rate limiter on its own                                             *)
(***************************************************************************)
\* one call rateLimiter.checkLimit(u), observed
CallCheckLimit(u) ==
    /\ IF rlWinExpired(u) THEN TRUE ELSE rlWin[u].calls < maxRequests + MaxOver
    /\ Becomes(checkLimit(Cur, u))
    /\ rlObs' = [user |-> u, result |-> checkLimit(Cur, u).ret]
    /\ rlWin' = rlWinAfterCall(u)
    /\ rlFree' = rlFreeAfterCall(u)
    /\ UNCHANGED <<now, handlerVars, ticks, dupObs, dupFirst, utObs, swObs, rsObs, nlpObs, tmObs>>

\* the 15-minute timer: rateLimiter.cleanup()
RateLimiterCleanup ==
    /\ Becomes(rateLimiterCleanup(Cur))
    /\ UNCHANGED <<now, handlerVars, obsVars>>

\* the clock advances by one millisecond or by one window
TickRL ==
    /\ ticks < MaxTicks
    /\ \E d \in {1, windowMs} : now' = now + d
    /\ ticks' = ticks + 1
    /\ UNCHANGED <<storeVars, handlerVars, rlObs, rlWin, rlFree, dupObs, dupFirst, utObs, swObs, rsObs, nlpObs, tmObs>>

NextRL ==
    \/ \E u \in Users : CallCheckLimit(u)
    \/ RateLimiterCleanup
    \/ TickRL

SpecRL == Init /\ [][NextRL]_vars

\* C1: for every sender, the first maxRequests calls of checkLimit inside one
\* window of length windowMs return true, every further call inside that window
\* returns false, and the first call made after the window has run out opens a
\* new window with the full quota again.
C1_QuotaPerWindow ==
    rlObs.user \in DOMAIN rlWin =>
        (rlObs.result <=> rlWin[rlObs.user].calls <= maxRequests)

\* a sender was denied in one window and is admitted again in the next one
C1_Witness ==
    /\ rlObs.user \in DOMAIN rlWin
    /\ rlObs.result
    /\ rlWin[rlObs.user].windows = 2
    /\ rlWin[rlObs.user].calls = 1
    /\ rlObs.user \in DOMAIN violations

(***************************************************************************)
(* The dedup cache on its own                                              *)
(***************************************************************************)
Hashes == {"h1"}

\* one call messageCache.isDuplicate(u, h), observed
CallIsDuplicate(u, h) ==
    /\ dupCalls(cacheKey(u, h)) < MaxDupCalls
    /\ Becomes(isDuplicate(Cur, u, h))
    /\ dupObs' = [key |-> cacheKey(u, h),
                  result |-> isDuplicate(Cur, u, h).ret,
                  calls |-> dupCalls(cacheKey(u, h)) + 1,
                  expected |-> dupExpected(cacheKey(u, h)),
                  expectedByTTL |-> dupExpectedByTTL(cacheKey(u, h))]
    /\ dupFirst' = dupFirstAfterCall(cacheKey(u, h))
    /\ UNCHANGED <<now, handlerVars, ticks, rlObs, rlWin, rlFree, utObs, swObs, rsObs, nlpObs, tmObs>>

\* the 30-minute timer: messageCache.cleanup()
MessageCacheCleanup ==
    /\ Becomes(messageCacheCleanup(Cur))
    /\ dupFirst' = dupFirstAfterSweep
    /\ UNCHANGED <<now, handlerVars, ticks, rlObs, rlWin, rlFree, dupObs, utObs, swObs, rsObs, nlpObs, tmObs>>

\* the clock advances by one millisecond or by the cache duration
TickDedup ==
    /\ ticks < MaxTicks
    /\ \E d \in {1, MESSAGE_CACHE_DURATION} : now' = now + d
    /\ ticks' = ticks + 1
    /\ UNCHANGED <<storeVars, handlerVars, rlObs, rlWin, rlFree, dupObs, dupFirst, utObs, swObs, rsObs, nlpObs, tmObs>>

NextDedup ==
    \/ \E u \in Users, h \in Hashes : CallIsDuplicate(u, h)
    \/ MessageCacheCleanup
    \/ TickDedup

SpecDedup == Init /\ [][NextDedup]_vars

\* C2 as stated: isDuplicate(s, h) is false on the first call, true on every later
\* call made within MESSAGE_CACHE_DURATION of it, and false again on a call made
\* after MESSAGE_CACHE_DURATION has elapsed since the first one.
C2_FalseAgainAfterTTL ==
    dupObs.calls > 0 => (dupObs.result <=> dupObs.expectedByTTL)

\* C2 as amended: isDuplicate(s, h) is false on the first call and true on every
\* later call until a cleanup sweep runs more than MESSAGE_CACHE_DURATION after
\* that first call; only after such a sweep is it false again (and that call
\* opens the next period).  In particular it is true on every call made within
\* MESSAGE_CACHE_DURATION of the first one, whatever sweeps are interleaved.
C2_FalseAgainAfterSweep ==
    dupObs.calls > 0 => (dupObs.result <=> dupObs.expected)

\* a key is reported new a second time: a sweep ran after its duration elapsed
C2_Witness ==
    /\ dupObs.calls >= 2
    /\ ~dupObs.result
    /\ dupObs.key \in DOMAIN cache
    /\ cache[dupObs.key] > MESSAGE_CACHE_DURATION

(***************************************************************************)
(* The welcome throttle of the user tracker on its own                     *)
(***************************************************************************)
\* one call userTracker.recordInteraction(u)
CallRecordInteraction(u) ==
    /\ u \in DOMAIN interactions => interactions[u].messageCount < MaxSeen
    /\ Becomes(recordInteraction(Cur, u))
    /\ UNCHANGED <<now, handlerVars, obsVars>>

\* the call userTracker.shouldSendWelcome(u) has led to r, observed
CalledShouldSendWelcome(u, r) ==
    /\ Becomes(r)
    /\ utObs' = throttleCall("shouldSendWelcome", u, r, shouldSendWelcome(r, u))
    /\ UNCHANGED <<now, handlerVars, ticks, rlObs, rlWin, rlFree, dupObs, dupFirst, swObs, rsObs, nlpObs, tmObs>>

CallShouldSendWelcome(u) == CalledShouldSendWelcome(u, shouldSendWelcome(Cur, u))

\* the clock advances by one millisecond or by one day
TickTracker ==
    /\ ticks < MaxTicks
    /\ \E d \in {1, ONE_DAY} : now' = now + d
    /\ ticks' = ticks + 1
    /\ UNCHANGED <<storeVars, handlerVars, unitObs>>

NextTracker ==
    \/ \E u \in Users : CallRecordInteraction(u)
    \/ \E u \in Users : CallShouldSendWelcome(u)
    \/ TickTracker

SpecTracker == Init /\ [][NextTracker]_vars

C14_WelcomeCheckAndMarkKnown ==
    (utObs.op = "shouldSendWelcome" /\ utObs.known)
        => /\ utObs.result <=>
                  ~(utObs.lastWelcome # 0 /\ utObs.at - utObs.lastWelcome <= ONE_DAY)
           /\ utObs.result => (utObs.stamped = utObs.at /\ ~utObs.again)

(***************************************************************************)
(* The handler at work: deliveries, suspended handlers going on, timers    *)
(***************************************************************************)
NoQuote == ""

Message(from, body, timestamp, quoted) ==
    [from |-> from, body |-> body, timestamp |-> timestamp,
     hasQuotedMsg |-> quoted # NoQuote, quoted |-> quoted, fromMe |-> FALSE]

\* the texts a sender can quote: what the bot has forwarded to the sender
Quotable(from) ==
    {outbox[n].body : n \in {k \in 1..Len(outbox) :
        outbox[k].to = from /\ outbox[k].kind = "forward"}}

isFault(h, outcome) ==
    IF h.pc = "sheet" THEN outcome.throws
    ELSE IF h.pc \in {"fetch", "format"} THEN FALSE
    ELSE outcome = "throw"

\* the observers of the suspended handlers after a delivery: a handler that
\* was suspended is no longer alone
watchAfterDelivery(msg) ==
    LET suspended == [id \in DOMAIN watch |-> [watch[id] EXCEPT !.alone = FALSE]]
    IN  Put(suspended, delivered + 1,
            [quotedId |-> quotedId(msg), held |-> FALSE, answered |-> FALSE,
             others |-> {}, alone |-> DOMAIN handlers = {}, faulted |-> FALSE,
             tickets |-> {messages[n].id : n \in 1..Len(messages)},
             failedTo |-> {}, samples |-> 0, handled |-> FALSE,
             gone |-> quotedId(msg) \in swObs.swept \ ticketIds(messages)])

\* the observers of a handler after one of its awaits: what the store held
\* when the handler looked for the ticket, and whether a call of it has failed
watchAfterAwait(h, fault) ==
    LET w == watch[h.id]
        failed == [w EXCEPT !.faulted = @ \/ fault,
                            !.failedTo = IF fault /\ h.pc = "sendToStaff"
                                         THEN @ \cup {h.staff[h.member].number}
                                         ELSE @]
    IN  [watch EXCEPT ![h.id] =
            IF h.pc = "getQuotedMessage"
            THEN [failed EXCEPT !.held = isHeld(h.msg, w.quotedId),
                                !.answered = isAnswered(w.quotedId),
                                !.others = otherMatches(h.msg, w.quotedId)]
            ELSE failed]

Settle(table, r) ==
    IF r.h.pc = "done" THEN Remove(table, {r.h.id}) ELSE table

\* a delivery the pipeline handles: not of a group, not the bot's own, let
\* through by the rate limiter, not a duplicate, of a sender who is not muted
handledDelivery(d) ==
    /\ ~includes(d.from, "@g.us") /\ ~d.fromMe
    /\ d.admitted /\ ~d.cached /\ ~d.muted

\* the observers of the handler h after it has run up to r: the samples its
\* trackMessage calls have recorded so far
watchSampled(w, h, r, handled) ==
    [w EXCEPT ![h.id] =
        [@ EXCEPT !.samples = @ + r.s.analytics.total_messages
                                - analytics.total_messages,
                  !.handled = handled]]

\* the delivery of msg has run its handler h up to r
Delivered(msg, h, r, d, w) ==
    /\ Becomes(r.s)
    /\ handlers' = Settle(Put(handlers, h.id, r.h), r)
    /\ delivered' = delivered + 1
    /\ dlv' = d
    /\ processedAt' = processedAtAfter(msg, r, d)
    /\ watch' = Settle(watchSampled(w, h, r, handledDelivery(d)), r)
    /\ srObs' = srObsAfter(h, r, w[h.id])
    /\ rtObs' = rtObsAfter(h, r, w[h.id])
    /\ matchObs' = matchObsAfter(h, r)
    /\ welcomed' = welcomedAfter(h, r)
    /\ UNCHANGED <<now, ticks, faults, unitObs>>

DeliverTo(msg, h, r) ==
    Delivered(msg, h, r, dlvAfter(msg, r), watchAfterDelivery(msg))

\* the transport emits "message": the handler runs up to its first await
Deliver(msg) ==
    DeliverTo(msg, newHandler(delivered + 1, msg, now),
              runHandler(handlerStart(Cur, newHandler(delivered + 1, msg, now))))

\* the handler h has gone on up to r
Resumed(h, fault, r, w) ==
    /\ Becomes(r.s)
    /\ handlers' = Settle(Put(handlers, h.id, r.h), r)
    /\ faults' = IF fault THEN faults + 1 ELSE faults
    /\ watch' = Settle(watchSampled(w, h, r, w[h.id].handled), r)
    /\ srObs' = srObsAfter(h, r, w[h.id])
    /\ rtObs' = rtObsAfter(h, r, w[h.id])
    /\ matchObs' = matchObsAfter(h, r)
    /\ welcomed' = welcomedAfter(h, r)
    /\ UNCHANGED <<now, delivered, dlv, processedAt, ticks, unitObs>>

\* the call a suspended handler awaits settles: the handler runs up to its
\* next await; the calls named in mayFail are those that can fail
Resume(mayFail) ==
    \E id \in DOMAIN handlers :
        \E outcome \in Outcomes(handlers[id]) :
            /\ isFault(handlers[id], outcome) =>
                   (handlers[id].pc \in mayFail /\ faults < MaxFaults)
            /\ Resumed(handlers[id], isFault(handlers[id], outcome),
                       runHandler(handlerResume(Cur, handlers[id], outcome)),
                       watchAfterAwait(handlers[id], isFault(handlers[id], outcome)))

\* the hourly timer: forwardedMessages.cleanup()
ForwardedMessagesCleanup ==
    /\ Becomes(forwardedMessagesCleanup(Cur))
    /\ UNCHANGED <<now, handlerVars, ticks, unitObs>>

(***************************************************************************)
(* Muting: one client and the control commands                             *)
(***************************************************************************)
DeliverMute ==
    /\ delivered < MaxMsgs
    /\ \E body \in MuteBodies :
           Deliver(Message(Client, body, 1700000000, NoQuote))

\* the clock advances past the cache duration
TickMute ==
    /\ ticks < MaxJumps
    /\ now' = now + MESSAGE_CACHE_DURATION + 1
    /\ ticks' = ticks + 1
    /\ UNCHANGED <<storeVars, handlerVars, unitObs>>

\* the replies of the bot can fail
ResumeMute == Resume({"reply", "errorReply"})

NextMute ==
    \/ DeliverMute
    \/ ResumeMute
    \/ MessageCacheCleanup
    \/ TickMute

SpecMute == Init /\ [][NextMute]_vars

(***************************************************************************)
(* Claims on the handler, checked under SpecMute                           *)
(***************************************************************************)
\* C3 as stated: the deliveries of one event (same sender, same sanitized
\* text, same transport timestamp) have an effect at most once between them:
\* at most one of them changes what the bot keeps on users, tickets and
\* telemetry, sends something, or leaves a handler behind that can.
C3_OneEffectPerEvent ==
    \A event \in DOMAIN processedAt : processedAt[event].effects <= 1

\* C3 as amended: a delivery that the rate limiter admits and that comes at
\* most MESSAGE_CACHE_DURATION after a processed delivery of the same event
\* sends no reply, creates no ticket, changes no user state, records no
\* telemetry and ends without an await.
C3_SuppressedWithinTTL ==
    (/\ dlv.id > 0
     /\ dlv.admitted
     /\ dlv.sinceProcessed >= 0
     /\ dlv.sinceProcessed <= MESSAGE_CACHE_DURATION)
        => (~dlv.touched /\ ~dlv.suspended)

\* the first delivery of an event has been answered, and a second delivery
\* of it has come within the dedup window
C3_Witness ==
    /\ dlv.id = 2
    /\ dlv.admitted
    /\ dlv.sinceProcessed >= 0
    /\ dlv.sinceProcessed <= MESSAGE_CACHE_DURATION
    /\ dlv.cached
    /\ Len(outbox) = 1
    /\ DOMAIN handlers = {}

\* C4 as stated: a message of a muted sender that is no unmute command gets
\* no response (its handler ends without an await) and adds exactly one to
\* the sender's ignoredMessages.
C4_MutedIgnored ==
    (dlv.id > 0 /\ dlv.muted /\ ~dlv.unmuteCommand)
        => (~dlv.suspended /\ dlv.ignoredAfter = dlv.ignoredBefore + 1)

\* C4 as amended: the same, for a message that the rate limiter admits and
\* that the dedup cache does not hold.
C4_MutedIgnoredUnlessSuppressed ==
    (dlv.id > 0 /\ dlv.muted /\ ~dlv.unmuteCommand /\ dlv.admitted /\ ~dlv.cached)
        => (~dlv.suspended /\ dlv.ignoredAfter = dlv.ignoredBefore + 1)

\* a muted sender has written "help" and it has been counted
C4_Witness ==
    /\ dlv.muted
    /\ dlv.body = "help"
    /\ dlv.admitted
    /\ ~dlv.cached
    /\ ~dlv.suspended
    /\ dlv.ignoredAfter = 1
    /\ Len(outbox) = 1

\* C5: a muted sender who sends "unmute bot" has the message processed, and
\* once its handler has finished the sender is active.
C5_UnmuteActivates ==
    (/\ dlv.id > 0
     /\ dlv.muted
     /\ dlv.body = "unmute bot"
     /\ dlv.admitted
     /\ ~dlv.cached
     /\ dlv.id \notin DOMAIN handlers)
        => (dlv.unmuteCommand /\ dlv.touched /\ isBotActive(Cur, dlv.from))

(***************************************************************************)
(* Routing: a client writes to Accounts, the staff of Accounts reply       *)
(***************************************************************************)
\* every message is a new one: msg.timestamp, in seconds, tells them apart
DeliverRequest ==
    /\ delivered < MaxRouteMsgs
    /\ Cardinality(DOMAIN handlers) < MaxInFlight
    /\ Deliver(Message(Client, RequestBody, 1700000000 + delivered, NoQuote))

DeliverStaffReply ==
    /\ delivered < MaxRouteMsgs
    /\ Cardinality(DOMAIN handlers) < MaxInFlight
    /\ \E from \in {StaffOne, StaffTwo} :
           \E quoted \in Quotable(from) :
               Deliver(Message(from, StaffBody, 1700000000 + delivered, quoted))

\* the clock advances past the life of a ticket, between two handlers
TickRoute ==
    /\ ticks < MaxJumps
    /\ DOMAIN handlers = {}
    /\ now' = now + FORWARDED_MSG_CLEANUP + 1
    /\ ticks' = ticks + 1
    /\ UNCHANGED <<storeVars, handlerVars, unitObs>>

\* the requests to the sheet and the sends to staff and to clients can fail
ResumeRoute == Resume({"sheet", "sendToStaff", "getQuotedMessage", "sendToClient"})

NextRoute ==
    \/ DeliverRequest
    \/ DeliverStaffReply
    \/ ResumeRoute
    \/ ForwardedMessagesCleanup
    \/ TickRoute

SpecRoute == Init /\ [][NextRoute]_vars

(***************************************************************************)
(* The desk: a client writes to Accounts and the staff of Accounts write,   *)
(* with or without a quote, one message at a time and with no call failing *)
(***************************************************************************)
DeskBodies == {"mute bot", "help", StaffBody}

DeliverDeskRequest ==
    /\ delivered < MaxDeskMsgs
    /\ DOMAIN handlers = {}
    /\ Deliver(Message(Client, RequestBody, 1700000000 + delivered, NoQuote))

DeliverDeskStaff ==
    /\ delivered < MaxDeskMsgs
    /\ DOMAIN handlers = {}
    /\ \E from \in {StaffOne, StaffTwo} :
           \E body \in DeskBodies :
               \E quoted \in Quotable(from) \cup {NoQuote} :
                   Deliver(Message(from, body, 1700000000 + delivered, quoted))

ResumeDesk == Resume({})

NextDesk ==
    \/ DeliverDeskRequest
    \/ DeliverDeskStaff
    \/ ResumeDesk

SpecDesk == Init /\ [][NextDesk]_vars

\* the tickets that matched the reply srObs is about, when its handler
\* looked: those of the sender whose request text the quoted text holds
srObsMatching ==
    (IF srObs.held THEN {srObs.quotedId} ELSE {}) \cup srObs.others

\* C11: a quoted reply of a member of staff that matches a ticket is sent on
\* to the client, whatever its text classifies to and whether or not the
\* member has muted the bot: once the handler of such a delivery has ended,
\* a reply sent on by it is among the messages sent.
C11_ReplyForwardedWhateverState ==
    (/\ dlv.id > 0
     /\ dlv.quotedHeld
     /\ dlv.admitted
     /\ ~dlv.cached
     /\ dlv.id \notin DOMAIN handlers)
        => \E n \in 1..Len(outbox) :
               outbox[n].kind = "staff reply" /\ outbox[n].by = dlv.id

\* what the handler does first for a message of the intent, when the message
\* is no reply of staff: the reply it sends, or "done" when it sends none
firstOfIntent ==
    [help |-> "welcome", bot_control |-> "Bot Muted",
     department_contact |-> "connecting", casual_conversation |-> "done"]

\* C12: when a message has no quote, or quotes text that matches no ticket
\* of its sender, processStaffReply returns false, has sent nothing to a
\* client, has left the ticket store as it was, and the handler goes on with
\* what the intent of the message asks for.
C12_CorrelationMiss ==
    (srObs.by > 0 /\ srObsMatching = {})
        => /\ ~srObs.result
           /\ srObs.replies = 0
           /\ srObs.kept
           /\ srObs.intent \in DOMAIN firstOfIntent
           /\ srObs.next = firstOfIntent[srObs.intent]

\* a member of staff has asked for help quoting a forward whose ticket the
\* member does not hold, and the handler goes on to the welcome text
C12_Witness ==
    /\ srObs.by > 0
    /\ srObs.quotedId # ""
    /\ srObsMatching = {}
    /\ ~srObs.result
    /\ srObs.intent = "help"
    /\ srObs.next = "welcome"

(***************************************************************************)
(* Small talk: two senders and the texts the bot answers at most now and   *)
(* then, handlers interleaved, the clock going on between them             *)
(***************************************************************************)
ChatBodies == {GeneralBody, IrrelevantBody}

DeliverChat ==
    /\ delivered < MaxChatMsgs
    /\ Cardinality(DOMAIN handlers) < MaxInFlight
    /\ \E from \in {Client, StaffOne} : \E body \in ChatBodies :
           Deliver(Message(from, body, 1700000000 + delivered, NoQuote))

ResumeChat == Resume({})

\* the clock advances by one millisecond, by five minutes or by one day
TickChat ==
    /\ ticks < MaxChatTicks
    /\ \E d \in {1, FIVE_MINUTES, ONE_DAY} : now' = now + d
    /\ ticks' = ticks + 1
    /\ UNCHANGED <<storeVars, handlerVars, unitObs>>

NextChat ==
    \/ DeliverChat
    \/ ResumeChat
    \/ TickChat

SpecChat == Init /\ [][NextChat]_vars

\* C13: for every sender and over every interleaving of the handlers, two
\* welcomes that the branch of the general intent decides to send to that
\* sender are more than 24 hours apart: the test of lastWelcome and its
\* stamping are one step, so no second handler passes the test in between.
C13_NoDoubleWelcome ==
    \A i \in 1..Len(welcomed) : \A j \in 1..Len(welcomed) :
        (i < j /\ welcomed[i].user = welcomed[j].user)
            => welcomed[j].at - welcomed[i].at > ONE_DAY

\* a second general message of a sender is handled, unwelcomed, while the
\* handler that welcomes the sender still awaits its reply
C13_Witness ==
    /\ Len(welcomed) = 1
    /\ welcomed[1].by \in DOMAIN handlers
    /\ handlers[welcomed[1].by].pc = "reply"
    /\ dlv.id > welcomed[1].by
    /\ dlv.from = welcomed[1].user
    /\ dlv.intent = "general"
    /\ dlv.admitted /\ ~dlv.cached /\ ~dlv.muted

\* a bot response is recorded for the sender of the message srObs is about
\* and is at most five minutes old when the handler comes to the intent
heldBack == srObs.lastBotResponse # 0 /\ srObs.at - srObs.lastBotResponse <= FIVE_MINUTES

\* C15: shouldRespondToGeneral returns true if and only if no bot response was
\* ever recorded for the sender or the last one recorded is more than 5 minutes
\* old: a message of intent irrelevant is answered exactly when that is so, a
\* message of intent general that gets no welcome likewise, and once a bot
\* response is recorded a message of either intent within 5 minutes gets
\* neither of the two replies the throttle guards.
C15_GeneralThrottle ==
    (srObs.by > 0 /\ srObs.intent \in {"general", "irrelevant"})
        => /\ srObs.intent = "irrelevant"
                  => (srObs.next = "not a tea query" <=> ~heldBack)
           /\ (srObs.intent = "general" /\ srObs.next # "welcome")
                  => (srObs.next = "here if you need" <=> ~heldBack)
           /\ heldBack => srObs.next \in {"welcome", "done"}

\* a message is left unanswered exactly five minutes after the last response
C15_Witness ==
    /\ srObs.by > 0
    /\ srObs.intent \in {"general", "irrelevant"}
    /\ srObs.at - srObs.lastBotResponse = FIVE_MINUTES
    /\ srObs.next = "done"

\* a message of intent general is answered again once the five minutes are over
C15_AnsweredAgain ==
    /\ srObs.by > 0
    /\ srObs.intent = "general"
    /\ srObs.lastBotResponse # 0
    /\ srObs.next = "here if you need"

(***************************************************************************)
(* The sweep of the tickets: requests, replies of staff, the hourly timer, *)
(* the clock going on by a millisecond or by the life of a ticket          *)
(***************************************************************************)
DeliverSweepRequest ==
    /\ delivered < MaxSweepMsgs
    /\ DOMAIN handlers = {}
    /\ Deliver(Message(Client, RequestBody, 1700000000 + delivered, NoQuote))

DeliverSweepReply ==
    /\ delivered < MaxSweepMsgs
    /\ DOMAIN handlers = {}
    /\ \E quoted \in Quotable(StaffTwo) :
           Deliver(Message(StaffTwo, StaffBody, 1700000000 + delivered, quoted))

ResumeSweep == Resume({})

\* the hourly timer has run forwardedMessages.cleanup(), which has led to r
Swept(r) ==
    /\ Becomes(r)
    /\ swObs' = swObsAfter(r)
    /\ UNCHANGED <<now, handlerVars, ticks, rlObs, rlWin, rlFree, dupObs, dupFirst, utObs, rsObs, nlpObs, tmObs>>

Sweep == Swept(forwardedMessagesCleanup(Cur))

\* the clock advances by one millisecond or by the life of a ticket, between
\* two handlers
TickSweep ==
    /\ ticks < MaxSweepTicks
    /\ DOMAIN handlers = {}
    /\ \E d \in {1, FORWARDED_MSG_CLEANUP} : now' = now + d
    /\ ticks' = ticks + 1
    /\ UNCHANGED <<storeVars, handlerVars, unitObs>>

NextSweep ==
    \/ DeliverSweepRequest
    \/ DeliverSweepReply
    \/ ResumeSweep
    \/ Sweep
    \/ TickSweep

SpecSweep == Init /\ [][NextSweep]_vars

\* the last sweep took the tickets older than 24 hours, all of them, and no
\* other
sweptByAge ==
    /\ \A n \in 1..Len(swObs.before) :
           (swObs.before[n].id \in ticketIds(swObs.after))
               <=> swObs.at - swObs.before[n].timestamp <= FORWARDED_MSG_CLEANUP
    /\ ticketIds(swObs.after) \subseteq ticketIds(swObs.before)

\* C16 as stated: each run of the sweep deletes every ticket older than 24
\* hours and keeps every ticket at most 24 hours old, and a reply of staff
\* that arrives after the ticket it quotes was swept is forwarded to no client.
C16_SweptReplyUncorrelated ==
    /\ sweptByAge
    /\ (srObs.by > 0 /\ srObs.gone) => (~srObs.result /\ srObs.replies = 0)

\* C16 as amended: each run of the sweep deletes every ticket older than 24
\* hours and keeps every ticket at most 24 hours old; a reply of staff that
\* arrives after the ticket it quotes was swept is forwarded to no client
\* unless the quoted text also contains the request of another ticket the
\* sender still holds, in which case it goes to the client of that ticket.
C16_SweptReplyMatchesOthersOnly ==
    /\ sweptByAge
    /\ (srObs.by > 0 /\ srObs.gone /\ srObs.others = {})
           => (~srObs.result /\ srObs.replies = 0)
    /\ (srObs.by > 0 /\ srObs.gone /\ srObs.result)
           => srObs.matched \in srObs.others

\* a sweep has taken a ticket, and the reply that quotes it has found nothing
C16_Witness ==
    /\ \E n \in 1..Len(swObs.before) :
           /\ swObs.before[n].id \in swObs.swept
           /\ swObs.at - swObs.before[n].timestamp = FORWARDED_MSG_CLEANUP + 1
    /\ srObs.by > 0 /\ srObs.gone /\ srObs.others = {} /\ ~srObs.result

\* a sweep has kept a ticket exactly 24 hours old
C16_KeptAtOneDay ==
    \E n \in 1..Len(swObs.before) :
        /\ swObs.before[n].id \in ticketIds(swObs.after)
        /\ swObs.at - swObs.before[n].timestamp = FORWARDED_MSG_CLEANUP

(***************************************************************************)
(* Failing replies: two senders, the replies of the bot can fail           *)
(***************************************************************************)
FailBodies == {"help", GeneralBody}

DeliverFail ==
    /\ delivered < MaxFailMsgs
    /\ Cardinality(DOMAIN handlers) < MaxInFlight
    /\ \E from \in {Client, StaffOne} : \E body \in FailBodies :
           Deliver(Message(from, body, 1700000000 + delivered, NoQuote))

ResumeFail == Resume({"reply", "errorReply"})

NextFail ==
    \/ DeliverFail
    \/ ResumeFail

SpecFail == Init /\ [][NextFail]_vars

\* the handler id has gone on in this step with a call that failed
failedIn(id) ==
    /\ faults' = faults + 1
    /\ id \in DOMAIN handlers' => handlers'[id] # handlers[id]

\* the failure of a reply of the handler id is caught: one more failed request
\* under the intent error in the telemetry, the rest of the store as it was,
\* and the handler at the reply of the apology
caughtAtTop(id) ==
    /\ id \in DOMAIN handlers'
    /\ handlers'[id].pc = "errorReply"
    /\ analytics'.failed_requests = analytics.failed_requests + 1
    /\ analytics'.total_messages = analytics.total_messages + 1
    /\ analytics'.successful_requests = analytics.successful_requests
    /\ "error" \in DOMAIN analytics'.intents
    /\ UNCHANGED <<interactions, cache, messages, userLimits, outbox>>

\* the reply of the apology of the handler id has gone out
apologized(id) ==
    outbox' = Append(outbox, sent(handlers[id].userId, "error occurred", id, "", ""))

\* a message that has passed the rate limiter, the dedup cache and the mute
\* gate is handled: it is recorded as an interaction and comes to its intent
handledAsEver ==
    (dlv.id > 0 /\ dlv.admitted /\ ~dlv.cached /\ ~dlv.muted)
        => dlv.intent # "" /\ dlv.touched

DeliverInvalid ==
    /\ delivered < MaxInvalidMsgs
    /\ Cardinality(DOMAIN handlers) < MaxInFlight
    /\ \E body \in InvalidBodies :
           Deliver(Message(Client, body, 1700000000 + delivered, NoQuote))

ResumeInvalid == Resume({})

NextInvalid ==
    \/ DeliverInvalid
    \/ ResumeInvalid

SpecInvalid == Init /\ [][NextInvalid]_vars

\* the corrective message a request that fails validation is to get
corrective ==
    (NoCodeBody :> "provide factory codes")
        @@ (NoDepartmentBody :> "department contacts")
        @@ (SixCodesBody :> "maximum 5 codes")

\* the handler id of a request among bodies, delivered in this step and past
\* the gates, awaits the reply of its corrective message
correctiveFirst(id, bodies) ==
    (/\ id \notin DOMAIN handlers
     /\ handlers'[id].msg.body \in bodies
     /\ handlers'[id].intent # "")
        => /\ handlers'[id].pc = "reply"
           /\ Head(handlers'[id].script).label = corrective[handlers'[id].msg.body]

\* the handler id of a request among bodies ends in this step: its corrective
\* message has gone out and one more failed request is in the telemetry
failedRequest(id, bodies) ==
    (/\ id \notin DOMAIN handlers'
     /\ handlers[id].msg.body \in bodies
     /\ handlers[id].intent # "")
        => /\ analytics'.failed_requests = analytics.failed_requests + 1
           /\ analytics'.successful_requests = analytics.successful_requests
           /\ \E n \in 1..Len(outbox') :
                  /\ outbox'[n].by = id
                  /\ outbox'[n].kind = corrective[handlers[id].msg.body]

validationAnswered(bodies) ==
    /\ \A id \in DOMAIN handlers' : correctiveFirst(id, bodies)
    /\ \A id \in DOMAIN handlers : failedRequest(id, bodies)

\* C18: every request that fails validation, a factory query with no valid
\* code, a department request that names no department, a request with more
\* than five codes, is answered with its corrective message and is recorded
\* in the telemetry as a failed request.
C18_ValidationAnswered == [][validationAnswered(InvalidBodies)]_vars

\* the part of C18 that the code keeps: the two failures the handler detects
C18_DetectedValidationAnswered ==
    [][validationAnswered({NoCodeBody, NoDepartmentBody})]_vars

\* a request with six codes has ended without a corrective message
C18_SixCodesFetched ==
    \E n \in 1..Len(outbox) :
        /\ outbox[n].kind \in {"factory data", "no data found"}
        /\ \A k \in 1..Len(outbox) : outbox[k].kind # "maximum 5 codes"

(***************************************************************************)
(* Shutdown and restart: one client, the signal, the end of the process    *)
(* and its start from the files                                            *)
(***************************************************************************)
RestartBodies == {"help", GeneralBody, "mute bot"}

DeliverRestart ==
    /\ phase = "running"
    /\ delivered < MaxRestartMsgs
    /\ Cardinality(DOMAIN handlers) < MaxInFlight
    /\ \E body \in RestartBodies :
           Deliver(Message(Client, body, 1700000000 + delivered, NoQuote))

\* a handler goes on while the process is up, the signal handler awaiting
\* client.destroy() included
ResumeRestart ==
    /\ phase \in {"running", "closing"}
    /\ Resume({})

\* process.on('SIGINT') and process.on('SIGTERM'), up to await client.destroy()
shutdownSave(s) ==
    [saveMessages(saveInteractions(saveCache(saveAnalytics(s))))
        EXCEPT !.phase = "closing"]

Signal ==
    /\ phase = "running"
    /\ rsObs.restarts < MaxRestarts
    /\ Becomes(shutdownSave(Cur))
    /\ rsObs' = [rsObs EXCEPT !.atSignal = storesOf(Cur),
                              !.busy = DOMAIN handlers # {}]
    /\ UNCHANGED <<now, handlerVars, ticks, rlObs, rlWin, rlFree, dupObs, dupFirst,
                   utObs, swObs, nlpObs, tmObs>>

\* client.destroy() has settled: process.exit(0), or process.exit(1) from the
\* catch; the handlers in flight end with the process
Exit ==
    /\ phase = "closing"
    /\ Becomes([Cur EXCEPT !.phase = "down"])
    /\ handlers' = EmptyMap
    /\ watch' = EmptyMap
    /\ rsObs' = [rsObs EXCEPT !.atExit = storesOf(Cur)]
    /\ UNCHANGED <<now, delivered, faults, dlv, processedAt, srObs, rtObs,
                   matchObs, welcomed, ticks, rlObs, rlWin, rlFree, dupObs, dupFirst,
                   utObs, swObs, nlpObs, tmObs>>

\* the module is loaded again: every singleton is constructed from its file,
\* the limiter and the directory from nothing
started(s) ==
    [s EXCEPT !.userLimits = EmptyMap, !.violations = EmptyMap,
              !.cache = s.disk.cache, !.interactions = s.disk.interactions,
              !.messages = s.disk.messages,
              !.analytics = loadAnalytics(s.disk.analytics),
              !.staffDirectory = NoDirectory, !.lastStaffFetch = 0,
              !.phase = "running"]

Started(r) ==
    /\ Becomes(r)
    /\ now' = now + 1
    /\ rsObs' = [rsObs EXCEPT !.restarts = @ + 1, !.restored = storesOf(r),
                              !.limiter = r.userLimits]
    /\ UNCHANGED <<handlerVars, ticks, rlObs, rlWin, rlFree, dupObs, dupFirst, utObs,
                   swObs, nlpObs, tmObs>>

Start ==
    /\ phase = "down"
    /\ Started(started(Cur))

NextRestart ==
    \/ DeliverRestart
    \/ ResumeRestart
    \/ Signal
    \/ Exit
    \/ Start

SpecRestart == Init /\ [][NextRestart]_vars

\* C19: after a graceful shutdown and a restart the dedup cache, every
\* UserState, the ticket store and the analytics counters are what they were
\* before the shutdown, be it when the signal came or when the process ended,
\* and the rate limiter is empty.
C19_RestartRoundTrip ==
    rsObs.restarts > 0
        => /\ rsObs.restored = rsObs.atSignal \/ rsObs.restored = rsObs.atExit
           /\ rsObs.limiter = EmptyMap

\* the part of C19 that the code keeps: when no handler was in flight at the
\* signal, the stores are what they were and the limiter is empty
C19_QuietRestartRoundTrip ==
    (rsObs.restarts > 0 /\ ~rsObs.busy)
        => /\ rsObs.restored = rsObs.atSignal
           /\ rsObs.restored = rsObs.atExit
           /\ rsObs.limiter = EmptyMap

\* a quiet restart of a bot that has something in every store it fills here
C19_QuietRestarted ==
    /\ rsObs.restarts > 0 /\ ~rsObs.busy
    /\ rsObs.restored.cache # EmptyMap
    /\ rsObs.restored.interactions # EmptyMap
    /\ rsObs.restored.analytics.unique_users # {}
    /\ disk.analytics.unique_users # <<>>

\* C20: the messages of one sender are handled one at a time in the order of
\* arrival: when the handler of a message reads or writes what the bot keeps,
\* no handler of an earlier message of the same sender is still in flight.
C20_OneAtATimePerSender ==
    (dlv.id > 0 /\ dlv.touched)
        => \A id \in DOMAIN handlers :
               id < dlv.id => handlers[id].userId # dlv.from

\* two handlers of one sender in flight, the later one past the gates
C20_TwoInFlight ==
    /\ dlv.id \in DOMAIN handlers
    /\ dlv.intent # ""
    /\ \E id \in DOMAIN handlers : id < dlv.id /\ handlers[id].userId = dlv.from

(***************************************************************************)
(* The filter at the head of the handler: messages of a client, of a group *)
(* and of the bot's own account                                            *)
(***************************************************************************)
FilterBodies == {"help", GeneralBody}

\* a message the account of the bot has sent itself
FromMe(msg) == [msg EXCEPT !.fromMe = TRUE]

DeliverPlain ==
    /\ delivered < MaxFilterMsgs
    /\ Cardinality(DOMAIN handlers) < MaxInFlight
    /\ \E body \in FilterBodies :
           Deliver(Message(Client, body, 1700000000 + delivered, NoQuote))

DeliverGroup ==
    /\ delivered < MaxFilterMsgs
    /\ \E body \in FilterBodies :
           Deliver(Message(Group, body, 1700000000 + delivered, NoQuote))

DeliverOwn ==
    /\ delivered < MaxFilterMsgs
    /\ \E body \in FilterBodies :
           Deliver(FromMe(Message(Client, body, 1700000000 + delivered, NoQuote)))

ResumeFilter == Resume({})

NextFilter ==
    \/ DeliverPlain
    \/ DeliverGroup
    \/ DeliverOwn
    \/ ResumeFilter

SpecFilter == Init /\ [][NextFilter]_vars

\* the message delivered in this step is one of a group or one of the bot
filteredDelivery ==
    /\ delivered' = delivered + 1
    /\ includes(dlv'.from, "@g.us") \/ dlv'.fromMe

\* C21: the delivery of a message of a group or of the bot itself leaves the
\* rate windows, the violations, the dedup cache, the user states, the ticket
\* store, the analytics and the files as they are, sends nothing and leaves no
\* handler behind.
C21_FilteredLeavesNoTrace ==
    [][filteredDelivery
          => UNCHANGED <<userLimits, violations, cache, interactions, messages,
                         analytics, disk, outbox, handlers>>]_vars

\* a message of the bot itself is delivered to a bot that has handled a
\* message of the same sender before
C21_Witness ==
    /\ dlv.id > 1
    /\ dlv.fromMe
    /\ dlv.from \in DOMAIN interactions
    /\ dlv.from \in DOMAIN userLimits
    /\ ~dlv.touched /\ ~dlv.suspended

\* a message of a group is delivered to a bot that has handled messages
C21_GroupDelivered ==
    /\ dlv.id > 1
    /\ includes(dlv.from, "@g.us")
    /\ analytics.total_messages > 0
    /\ ~dlv.touched /\ ~dlv.suspended

(***************************************************************************)
(* The classifier on its own: SpecNlp gives classify and extractEntities,   *)
(* as the handler calls them one after the other, texts made of up to      *)
(* MaxFragments fragments.                                                 *)
(***************************************************************************)
NlpFragments ==
    {"MF 0235", "average", "sale 12", "sale 45 elevation average", "sale 1234",
     "email", "xyz"}

\* the keywords of all intents that hit the text, by substring or by stem
keywordHits(cleanText, stems) ==
    Cardinality({p \in UNION {{<<i, k>> : k \in 1..Len(patterns[i].keywords)} :
                                i \in 1..Len(patterns)} :
        \/ includes(cleanText, patterns[p[1]].keywords[p[2]])
        \/ \E j \in 1..Len(stems) : stems[j] = stem(patterns[p[1]].keywords[p[2]])})

\* the regular expressions of all intents that match the text
patternHits(cleanText) ==
    Cardinality({p \in UNION {{<<i, k>> : k \in 1..Len(patterns[i].patterns)} :
                                i \in 1..Len(patterns)} :
        matchLength(patterns[p[1]].patterns[p[2]], cleanText) > 0})

\* const intent = intentClassifier.classify(text);
\* const entities = intentClassifier.extractEntities(text);
understood(text) ==
    LET cleanText == trim(toLowerCase(text))
        tokens == tokenize(cleanText)
        stems == [j \in 1..Len(tokens) |-> stem(tokens[j])]
    IN  [text |-> text, intent |-> classify(text),
         score |-> bestFrom(1, <<"general", 0>>, cleanText, stems)[2],
         entities |-> extractEntities(text),
         keywordHits |-> keywordHits(cleanText, stems),
         patternHits |-> patternHits(cleanText)]

\* a sender writes one more fragment of the text
Write ==
    /\ nlpObs.fragments < MaxFragments
    /\ \E f \in NlpFragments :
           nlpObs' = [NoText EXCEPT
                        !.fragments = nlpObs.fragments + 1,
                        !.text = IF nlpObs.text = "" THEN f ELSE nlpObs.text \o " " \o f]
    /\ UNCHANGED <<now, storeVars, handlerVars, ticks, rlObs, rlWin, rlFree, dupObs,
                   dupFirst, utObs, swObs, rsObs, tmObs>>

\* the text goes through the classifier
Understand ==
    /\ nlpObs.fragments > 0
    /\ nlpObs.calls = 0
    /\ nlpObs' = [calls |-> 1, fragments |-> nlpObs.fragments]
                    @@ understood(nlpObs.text)
    /\ UNCHANGED <<now, storeVars, handlerVars, ticks, rlObs, rlWin, rlFree, dupObs,
                   dupFirst, utObs, swObs, rsObs, tmObs>>

NextNlp == Write \/ Understand

SpecNlp == Init /\ [][NextNlp]_vars

\* C22: classifying "MF 0235 average" yields factory_query, and the entities
\* extracted from it hold the factory codes ["MF0235"], the space inside the
\* code removed
C22_FactoryQueryUnderstood ==
    (nlpObs.calls = 1 /\ nlpObs.text = "MF 0235 average")
        => /\ nlpObs.intent = "factory_query"
           /\ nlpObs.entities.factory_codes = <<"MF0235">>

C22_Witness ==
    /\ nlpObs.calls = 1
    /\ nlpObs.text = "MF 0235 average"
    /\ nlpObs.intent = "factory_query"
    /\ Len(nlpObs.entities.factory_codes) = 1

\* C23: of several sale numbers in a text extractSaleNumber returns the
\* rightmost, padded with zeros to three digits: "sale 12 sale 45 elevation
\* average" gives "045"
C23_RightmostSaleNumber ==
    nlpObs.calls = 1
        => /\ nlpObs.text = "sale 12 sale 45 elevation average"
                => nlpObs.entities.sale_number = "045"
           /\ nlpObs.text = "sale 45 elevation average sale 12"
                => nlpObs.entities.sale_number = "012"

C23_Witness ==
    /\ nlpObs.calls = 1
    /\ nlpObs.text = "sale 12 sale 45 elevation average"
    /\ nlpObs.entities.sale_number = "045"

\* C24: classify returns general whenever the highest weighted score is below
\* 3, and a text whose only evidence is one keyword hit of one intent, no
\* regular expression matching, is classified general
C24_FloorSuppressesOneKeyword ==
    nlpObs.calls = 1
        => /\ nlpObs.score < 3 => nlpObs.intent = "general"
           /\ (nlpObs.keywordHits = 1 /\ nlpObs.patternHits = 0)
                => nlpObs.intent = "general"

\* one keyword, no regular expression, and the intent of the keyword is returned
C24_OneKeywordClassified ==
    /\ nlpObs.calls = 1
    /\ nlpObs.text = "email"
    /\ nlpObs.keywordHits = 1 /\ nlpObs.patternHits = 0
    /\ nlpObs.intent = "contact"

\* C25: a sale number is accepted only if it is at most 999: for "sale 1234"
\* extractSaleNumber returns null
C25_SaleNumberAtMost999 ==
    (nlpObs.calls = 1 /\ nlpObs.text = "sale 1234")
        => nlpObs.entities.sale_number = NoValue

\* the first three digits of a longer number are taken for the sale number
C25_LongNumberCut ==
    /\ nlpObs.calls = 1
    /\ nlpObs.text = "sale 1234"
    /\ nlpObs.entities.sale_number = "123"

(***************************************************************************)
(* Claims on the sweep of the rate limiter and on denied calls, checked    *)
(* under SpecRL                                                            *)
(***************************************************************************)
\* C26: the sweep of the rate limiter has no effect on admission: every call
\* of checkLimit gets the verdict it gets from a limiter that is given the
\* same calls at the same times and is never swept, and a sweep removes only
\* windows with now > resetTime + windowMs
C26_SweepKeepsAdmission ==
    /\ [][\A u \in DOMAIN userLimits \ DOMAIN userLimits' :
              now > userLimits[u].resetTime + windowMs]_vars
    /\ [](rlFree # NoFree => rlObs.result = rlFree.result)

\* a sender who was denied, whose window was swept, and who calls again
C26_Witness ==
    /\ rlFree.dropped
    /\ rlObs.user \in DOMAIN violations
    /\ rlObs.result /\ rlFree.result

\* a step that is a call of checkLimit, and one that is a denied call
limiterCalled == rlWin' # rlWin
limiterDenied == limiterCalled /\ ~rlObs'.result

\* C27: a denied checkLimit leaves the window of the sender, count and
\* resetTime, as it was and adds one to the violations of the sender and to
\* nothing else; the violations never influence admission: every call gets
\* the verdict it gets with no violation on record
C27_DenialOnlyCounts ==
    /\ [][limiterDenied =>
             /\ userLimits' = userLimits
             /\ violations' = Put(violations, rlObs'.user,
                                   getViolations(Cur, rlObs'.user) + 1)]_vars
    /\ [][limiterCalled =>
             rlObs'.result =
                 checkLimit([Cur EXCEPT !.violations = EmptyMap], rlObs'.user).ret]_vars

\* a second denial in an open window that is full
C27_Witness ==
    /\ ~rlObs.result
    /\ rlObs.user \in DOMAIN violations
    /\ violations[rlObs.user] = 2
    /\ userLimits[rlObs.user].count = maxRequests
    /\ now < userLimits[rlObs.user].resetTime

\* C28: a send that fails does not corrupt the tickets: when the send of a
\* staff reply to the client fails, processStaffReply returns false and leaves
\* the store of tickets as it was, the matched ticket in it; when the forward
\* to one member of staff fails, no ticket is made for that member and the
\* loop goes on to every other member of the department
C28_FailedSendKeepsTickets ==
    /\ (srObs.by > 0 /\ srObs.matched # "" /\ srObs.faulted)
          => /\ ~srObs.result
             /\ srObs.kept
             /\ srObs.replies = 0
    /\ (rtObs.by > 0 /\ rtObs.members > 0)
          => /\ rtObs.forwarded \cup rtObs.failed = rtObs.staff
             /\ rtObs.forwarded \cap rtObs.failed = {}
             /\ rtObs.holders \cap rtObs.failed = {}

\* the forward to the first member has failed and the second member holds the
\* ticket; the send of the reply of that member has failed and the ticket
\* is still there
C28_Witness ==
    /\ rtObs.failed = {StaffOne}
    /\ rtObs.forwarded = {StaffTwo}
    /\ rtObs.holders = {StaffTwo}
    /\ srObs.by > 0 /\ srObs.matched = rtObs.messageId /\ srObs.faulted
    /\ ~srObs.result
    /\ messageIndex(messages, srObs.matched) # 0

(***************************************************************************)
(* Claims on telemetry                                                     *)
(***************************************************************************)
\* the samples recorded in a step
sampledNow == analytics'.total_messages - analytics.total_messages

\* C29: the handling of every message that is let through by the rate
\* limiter, is not a duplicate and comes from a sender who is not muted
\* records exactly one telemetry sample: when its handler ends, in the step of
\* the delivery or in a later one, the trackMessage calls of the handler are
\* one in number
C29_OneSamplePerHandled ==
    [][/\ (delivered' = delivered + 1 /\ ~dlv'.suspended /\ handledDelivery(dlv'))
            => sampledNow = 1
       /\ \A id \in DOMAIN handlers \ DOMAIN handlers' :
              watch[id].handled => watch[id].samples + sampledNow = 1]_vars

\* a general message of a sender who was answered less than five minutes
\* ago has been handled, and nothing was recorded
C29_HandledUnsampled ==
    /\ dlv.id = 2
    /\ handledDelivery(dlv)
    /\ dlv.intent = "general"
    /\ DOMAIN handlers = {}
    /\ analytics.total_messages = 1

(***************************************************************************)
(* The telemetry on its own: SpecTelemetry starts the program on the file  *)
(* of an earlier run, of no sample or of about a thousand, and calls       *)
(* trackMessage                                                            *)
(***************************************************************************)
LoadedSamples == {998, 999, 1000}

\* the analytics file after n answered "help" messages of one client, one a
\* millisecond
analyticsAfter(n) ==
    [total_messages |-> n, unique_users |-> <<Client>>,
     intents |-> Put(EmptyMap, "help", n),
     response_times |-> [k \in 1..n |->
                            [timestamp |-> k, response_time |-> 0,
                             intent |-> "help", success |-> TRUE]],
     errors |-> 0, successful_requests |-> n, failed_requests |-> 0]

\* new EnhancedAnalytics(): this.analytics = this.loadAnalytics(), the file
\* being that of an earlier run
StartedWith(n) ==
    /\ tmObs = NoSample
    /\ analytics.total_messages = 0
    /\ Becomes([Cur EXCEPT !.disk = [@ EXCEPT !.analytics = analyticsAfter(n)],
                           !.analytics = loadAnalytics(analyticsAfter(n))])
    /\ now' = n + 1
    /\ UNCHANGED <<handlerVars, obsVars>>

\* one call analytics.trackMessage(userId, intent, responseTime, success),
\* observed
CallTrackMessage(intent, responseTime, success) ==
    /\ tmObs.calls < MaxTracks
    /\ Becomes(trackMessage(Cur, Client, intent, responseTime, success))
    /\ tmObs' = [calls |-> tmObs.calls + 1,
                 before |-> analytics.response_times,
                 after |-> trackMessage(Cur, Client, intent, responseTime,
                                        success).analytics.response_times,
                 sample |-> [timestamp |-> now, response_time |-> responseTime,
                             intent |-> intent, success |-> success]]
    /\ UNCHANGED <<now, handlerVars, ticks, rlObs, rlWin, rlFree, dupObs,
                   dupFirst, utObs, swObs, rsObs, nlpObs>>

NextTelemetry ==
    \/ \E n \in LoadedSamples : StartedWith(n)
    \/ \E intent \in {"general", "error"} : \E responseTime \in {0, 40} :
           \E success \in BOOLEAN :
               CallTrackMessage(intent, responseTime, success)

SpecTelemetry == Init /\ [][NextTelemetry]_vars

\* C30: after a trackMessage call the buffer of samples holds at most 1000
\* entries, the new sample last; a sample appended to a full buffer evicts
\* the oldest one, and the samples that stay keep their order
C30_BufferCapped ==
    tmObs.calls > 0
        => /\ Len(tmObs.after) <= 1000
           /\ tmObs.after[Len(tmObs.after)] = tmObs.sample
           /\ IF Len(tmObs.before) < 1000
              THEN tmObs.after = Append(tmObs.before, tmObs.sample)
              ELSE tmObs.after = Append(Tail(tmObs.before), tmObs.sample)

\* the buffer was full, and the sample of the call before this one is now
\* the last but one
C30_Witness ==
    /\ tmObs.calls = 2
    /\ Len(tmObs.before) = 1000
    /\ Len(tmObs.after) = 1000
    /\ tmObs.before[1].timestamp = 2
    /\ tmObs.after[1].timestamp = 3
    /\ tmObs.after[999] = tmObs.before[1000]
    /\ analytics.response_times = tmObs.after

(***************************************************************************)
(* Writes that fail: SpecDisk is the desk of Accounts, one message at a     *)
(* time, on a disk that stops and starts taking writes                     *)
(***************************************************************************)
DeliverDiskRequest ==
    /\ delivered < MaxDiskMsgs
    /\ DOMAIN handlers = {}
    /\ Deliver(Message(Client, RequestBody, 1700000000 + delivered, NoQuote))

DeliverDiskReply ==
    /\ delivered < MaxDiskMsgs
    /\ DOMAIN handlers = {}
    /\ \E from \in {StaffOne, StaffTwo} :
           \E quoted \in Quotable(from) :
               Deliver(Message(from, StaffBody, 1700000000 + delivered, quoted))

ResumeDisk == Resume({})

\* fs.writeFileSync begins to throw, and ceases to
WritesFail ==
    /\ disk.writable
    /\ Becomes([Cur EXCEPT !.disk = [@ EXCEPT !.writable = FALSE]])
    /\ UNCHANGED <<now, handlerVars, obsVars>>

WritesGoThrough ==
    /\ ~disk.writable
    /\ Becomes([Cur EXCEPT !.disk = [@ EXCEPT !.writable = TRUE]])
    /\ UNCHANGED <<now, handlerVars, obsVars>>

NextDisk ==
    \/ DeliverDiskRequest
    \/ DeliverDiskReply
    \/ ResumeDisk
    \/ WritesFail
    \/ WritesGoThrough

SpecDisk == Init /\ [][NextDisk]_vars

\* the program state s with the files left out, and s on a disk that takes
\* writes or does not
inMemory(s) == [s EXCEPT !.disk = NoFiles]
onDisk(s, writable) == [s EXCEPT !.disk = [@ EXCEPT !.writable = writable]]

aTicket ==
    [clientNumber |-> Client, staffNumber |-> StaffOne, staffName |-> "Asha",
     department |-> "Accounts", clientName |-> "Client",
     originalMessage |-> RequestBody]

\* C31: a write of a table that fails is not fatal: addMessage and
\* removeMessage leave in memory what they leave when the write goes through,
\* with the same result, in every state the program reaches, states reached
\* after failed writes among them; a request is routed and its ticket held
\* in memory, and the reply to a ticket in memory is sent on and the ticket
\* removed, whether or not the disk takes the writes
C31_WriteFailureNotFatal ==
    /\ \A id \in ticketIds(messages) \cup {"new"} :
           /\ inMemory(addMessage(onDisk(Cur, FALSE), id, aTicket))
                 = inMemory(addMessage(onDisk(Cur, TRUE), id, aTicket))
           /\ messageIndex(addMessage(onDisk(Cur, FALSE), id, aTicket).messages, id) # 0
           /\ inMemory(removeMessage(onDisk(Cur, FALSE), id))
                 = inMemory(removeMessage(onDisk(Cur, TRUE), id))
           /\ removeMessage(onDisk(Cur, FALSE), id).ret <=> id # "new"
    /\ (rtObs.by > 0 /\ rtObs.members > 0)
          => rtObs.routed /\ rtObs.holders # {}
    /\ (srObs.by > 0 /\ srObs.held)
          => srObs.result /\ srObs.removed /\ srObs.replies = 1

\* the ticket of a request is in the file; the reply to it was sent on to
\* the client and the ticket removed in memory, and the write of the removal
\* failed
C31_Witness ==
    /\ rtObs.routed
    /\ srObs.by > rtObs.by /\ srObs.result /\ srObs.removed
    /\ srObs.matched = rtObs.messageId
    /\ messages = <<>>
    /\ ticketIds(disk.messages) = {rtObs.messageId}

\* C32: in every reachable state and for every sender, the count of the
\* sender's window is between 0 and maxRequests, and getRemainingRequests is
\* maxRequests less that count, maxRequests for a sender with no window
C32_CountWithinQuota ==
    \A u \in Users :
        /\ u \in DOMAIN userLimits
              => /\ userLimits[u].count \in 0..maxRequests
                 /\ getRemainingRequests(Cur, u) = maxRequests - userLimits[u].count
        /\ u \notin DOMAIN userLimits
              => getRemainingRequests(Cur, u) = maxRequests

\* one sender has used the quota and was denied, the other has no window
C32_Witness ==
    \E u, v \in Users :
        /\ u \in DOMAIN userLimits /\ userLimits[u].count = maxRequests
        /\ u \in DOMAIN violations
        /\ getRemainingRequests(Cur, u) = 0
        /\ v \notin DOMAIN userLimits

\* the sum of the counts of a map of counters
RECURSIVE sumOfCounts(_)
sumOfCounts(map) ==
    IF DOMAIN map = {} THEN 0
    ELSE LET k == CHOOSE x \in DOMAIN map : TRUE
         IN  map[k] + sumOfCounts(Remove(map, {k}))

\* C33: after any sequence of trackMessage calls on analytics that were empty,
\* total_messages is successful_requests plus failed_requests, errors is
\* failed_requests and the counts of the intents add up to total_messages;
\* none of these counters ever goes down
C33_CountersAddUp ==
    /\ [](/\ analytics.total_messages
                = analytics.successful_requests + analytics.failed_requests
           /\ analytics.errors = analytics.failed_requests
           /\ sumOfCounts(analytics.intents) = analytics.total_messages)
    /\ [][/\ analytics'.total_messages >= analytics.total_messages
           /\ analytics'.successful_requests >= analytics.successful_requests
           /\ analytics'.failed_requests >= analytics.failed_requests
           /\ analytics'.errors >= analytics.errors
           /\ \A i \in DOMAIN analytics.intents :
                  /\ i \in DOMAIN analytics'.intents
                  /\ analytics'.intents[i] >= analytics.intents[i]]_vars

\* from empty analytics, three calls: successes and a failure, two intents
C33_Witness ==
    /\ tmObs.calls = 3
    /\ analytics.total_messages = 3
    /\ analytics.failed_requests = 1 /\ analytics.errors = 1
    /\ analytics.successful_requests = 2
    /\ DOMAIN analytics.intents = {"general", "error"}

\* C34: a reply of staff is sent on only through a ticket whose staff number
\* is the sender of the reply: the client who gets it is the client of that
\* ticket, whose request was forwarded to this sender under the id of the
\* ticket, whatever was routed, answered and swept before
C34_ReplyThroughOwnTicket ==
    (srObs.by > 0 /\ srObs.result)
        => /\ srObs.staff = srObs.from
           /\ srObs.repliedTo = {srObs.client}
           /\ srObs.client = Client
           /\ \E k \in 1..Len(outbox) :
                  /\ outbox[k].kind = "forward"
                  /\ outbox[k].to = srObs.from
                  /\ outbox[k].ticket = srObs.matched

\* both members of Accounts got the forward; the reply of the one who holds
\* the ticket went to the client, after a reply of the other that did not
C34_Witness ==
    /\ srObs.by = 3 /\ srObs.result
    /\ srObs.from = StaffTwo /\ srObs.staff = StaffTwo
    /\ rtObs.forwarded = {StaffOne, StaffTwo}
    /\ Cardinality({k \in 1..Len(outbox) : outbox[k].kind = "staff reply"}) = 1

\* C35: every ticket in the store was made after the forward had gone to the
\* member the ticket names, under the id of the ticket, and its client is the
\* sender of the routed message; there is no ticket for a member the forward
\* could not be sent to
C35_TicketAfterForward ==
    \A n \in 1..Len(messages) :
        /\ \E k \in 1..Len(outbox) :
               /\ outbox[k].kind = "forward"
               /\ outbox[k].to = messages[n].staffNumber
               /\ outbox[k].ticket = messages[n].id
        /\ messages[n].clientNumber = Client
        /\ (rtObs.by > 0 /\ messages[n].id = rtObs.messageId)
              => messages[n].staffNumber \notin rtObs.failed

\* the forward to the first member failed; the ticket of the call is in the
\* store and names the second
C35_Witness ==
    /\ rtObs.by > 0 /\ rtObs.failed = {StaffOne}
    /\ \E n \in 1..Len(messages) :
           /\ messages[n].id = rtObs.messageId
           /\ messages[n].staffNumber = StaffTwo
           /\ messages[n].clientNumber = Client

(***************************************************************************)
(* The mute gate: SpecGate is one client who mutes the bot, writes on, and *)
(* activates it again                                                      *)
(***************************************************************************)
GateBodies == {"mute bot", "activate bot", GeneralBody}

DeliverGate ==
    /\ delivered < MaxGateMsgs
    /\ DOMAIN handlers = {}
    /\ \E body \in GateBodies :
           Deliver(Message(Client, body, 1700000000 + delivered, NoQuote))

ResumeGate == Resume({})

\* the clock advances by a millisecond or past the five minutes
TickGate ==
    /\ ticks < MaxJumps
    /\ \E d \in {1, FIVE_MINUTES + 1} : now' = now + d
    /\ ticks' = ticks + 1
    /\ UNCHANGED <<storeVars, handlerVars, unitObs>>

NextGate ==
    \/ DeliverGate
    \/ ResumeGate
    \/ TickGate

SpecGate == Init /\ [][NextGate]_vars

\* lastWelcome and lastBotResponse of a sender, null for a sender not known
stampsOf(s, userId) ==
    IF userId \in DOMAIN s.interactions
    THEN <<s.interactions[userId].lastWelcome,
           s.interactions[userId].lastBotResponse>>
    ELSE <<0, 0>>

\* C36: setBotActive(sender, true) sets the count of ignored messages of the
\* sender to 0, setBotActive(sender, false) leaves it as it is, and neither
\* changes lastWelcome or lastBotResponse, in every state the program
\* reaches; the count of a sender grows only while the sender is muted
C36_ActivationResetsIgnored ==
    /\ [](\A u \in {Client, StaffOne} :
             /\ ignoredMessagesOf(setBotActive(Cur, u, TRUE), u) = 0
             /\ isBotActive(setBotActive(Cur, u, TRUE), u)
             /\ ignoredMessagesOf(setBotActive(Cur, u, FALSE), u)
                   = ignoredMessagesOf(Cur, u)
             /\ ~isBotActive(setBotActive(Cur, u, FALSE), u)
             /\ stampsOf(setBotActive(Cur, u, TRUE), u) = stampsOf(Cur, u)
             /\ stampsOf(setBotActive(Cur, u, FALSE), u) = stampsOf(Cur, u))
    /\ [][\A u \in DOMAIN interactions :
              interactions'[u].ignoredMessages > interactions[u].ignoredMessages
                  => /\ interactions[u].botActive = FALSE
                     /\ interactions'[u].botActive = FALSE]_vars

\* a client who was welcomed and answered muted the bot, was ignored, and
\* has activated the bot again: the count is 0 and the stamps are there
C36_Witness ==
    /\ dlv.from = Client
    /\ dlv.muted /\ dlv.unmuteCommand
    /\ dlv.ignoredBefore > 0 /\ dlv.ignoredAfter = 0
    /\ dlv.activeAfter
    /\ interactions[Client].lastWelcome # 0
    /\ interactions[Client].lastBotResponse # 0

(***************************************************************************)
(* The staff directory: SpecDirectory is a client who writes to Accounts   *)
(* while the timer refreshes the directory and the sheet fails, is empty   *)
(* or changes                                                              *)
(***************************************************************************)
\* the sheet after a change of staff
OtherRows ==
    << <<"Department", "Number", "Name">>,
       <<"Accounts", "94711000002", "Nimal">> >>

\* what the sheet can answer to the refresh: an error, no rows, the header
\* alone, the staff, the staff after a change
DirectoryAnswers ==
    SheetAnswers \cup {[throws |-> FALSE, rows |-> <<>>],
                       [throws |-> FALSE, rows |-> <<SheetRows[1]>>],
                       [throws |-> FALSE, rows |-> OtherRows]}

\* fetchStaffDirectory(), a call whose request, if it makes one, is answered
\* at once
fetchStaffDirectory(s, answer) ==
    IF directoryIsFresh(s) THEN [s EXCEPT !.ret = s.staffDirectory.byDept]
    ELSE fetchStaffDirectoryAnswer(s, answer, s.now)

\* the timer of five minutes: fetchStaffDirectory()
RefreshStaffDirectory ==
    /\ \E answer \in DirectoryAnswers :
           Becomes(fetchStaffDirectory(Cur, answer))
    /\ UNCHANGED <<now, handlerVars, ticks, unitObs>>

DeliverDirectoryRequest ==
    /\ delivered < MaxDirMsgs
    /\ DOMAIN handlers = {}
    /\ Deliver(Message(Client, RequestBody, 1700000000 + delivered, NoQuote))

\* the requests to the sheet can fail
ResumeDirectory == Resume({"sheet"})

\* the clock advances to the last millisecond of the cache, or by one
TickDirectory ==
    /\ ticks < MaxDirTicks
    /\ \E d \in {1, CACHE_DURATION - 1} : now' = now + d
    /\ ticks' = ticks + 1
    /\ UNCHANGED <<storeVars, handlerVars, unitObs>>

NextDirectory ==
    \/ DeliverDirectoryRequest
    \/ ResumeDirectory
    \/ RefreshStaffDirectory
    \/ TickDirectory

SpecDirectory == Init /\ [][NextDirectory]_vars

answerFailed(answer) == answer.throws \/ Len(answer.rows) <= 1

\* the snapshot and its time
snapshotOf(s) == <<s.staffDirectory, s.lastStaffFetch>>

\* the handlers that await the sheet
awaitingSheet(hs) == {id \in DOMAIN hs : hs[id].pc = "sheet"}

DeliverAdmit ==
    /\ delivered < MaxAdmitMsgs
    /\ DOMAIN handlers = {}
    /\ \E timestamp \in {1700000000, 1700000001} :
           Deliver(Message(Client, RequestBody, timestamp, NoQuote))

ResumeAdmit == Resume({})

\* the clock advances by a second, inside the window
TickAdmit ==
    /\ ticks < MaxJumps
    /\ now' = now + 1000
    /\ ticks' = ticks + 1
    /\ UNCHANGED <<storeVars, handlerVars, unitObs>>

NextAdmit ==
    \/ DeliverAdmit
    \/ ResumeAdmit
    \/ TickAdmit

SpecAdmit == Init /\ [][NextAdmit]_vars

messageCountOf(table, userId) ==
    IF userId \in DOMAIN table THEN table[userId].messageCount ELSE 0

\* the last delivery was denied by the rate limiter or was a duplicate
turnedAway(d) == d.id > 0 /\ (~d.admitted \/ d.cached)

\* C38: the delivery of a message that the rate limiter denies or that is a
\* duplicate, and every later step of its handler, leave the records of all
\* senders and the tickets as they are; the messageCount of a sender changes
\* only in the delivery of an admitted message of the sender that is no
\* duplicate, and such a delivery adds one to it
C38_TurnedAwayLeavesNoTrace ==
    [][/\ turnedAway(dlv') =>
              /\ interactions' = interactions
              /\ messages' = messages
       /\ \A u \in DOMAIN interactions' :
              messageCountOf(interactions', u) # messageCountOf(interactions, u)
                  => /\ dlv'.id = dlv.id + 1
                     /\ dlv'.from = u
                     /\ dlv'.admitted /\ ~dlv'.cached
       /\ (dlv'.id = dlv.id + 1 /\ dlv'.admitted /\ ~dlv'.cached) =>
              messageCountOf(interactions', dlv'.from)
                  = messageCountOf(interactions, dlv'.from) + 1]_vars

\* the client holds a ticket, the quota of the window is used up, the
\* seventeenth message is denied without a reply, and the count of the
\* client is still that of the two messages that were no duplicates
C38_Witness ==
    /\ dlv.id = MaxAdmitMsgs /\ ~dlv.admitted
    /\ DOMAIN handlers = {}
    /\ violations[Client] = 2
    /\ messages # <<>>
    /\ interactions[Client].messageCount = 2

(***************************************************************************)
(* Queries: SpecQuery is a client who asks for elevation averages and for  *)
(* the market report, with and without a sale number, and mutes the bot    *)
(***************************************************************************)
DeliverQuery ==
    /\ delivered < MaxQueryMsgs
    /\ DOMAIN handlers = {}
    /\ \E body \in QueryBodies \cup {"mute bot"} :
           Deliver(Message(Client, body, 1700000000 + delivered, NoQuote))

\* the replies of the bot can fail
ResumeQuery == Resume({"reply"})

NextQuery ==
    \/ DeliverQuery
    \/ ResumeQuery

SpecQuery == Init /\ [][NextQuery]_vars

\* the delivery d is of a query for elevation averages or for the market
\* report that names no sale, from a sender who is not muted
queryWithoutSale(d) ==
    /\ d.admitted /\ ~d.cached /\ ~d.muted
    /\ d.intent \in {"elevation_query", "market_report"}
    /\ classified(sanitizeBody(d.body)).entities.sale_number = NoValue

\* C39: the delivery of an admitted message that is no duplicate, from a
\* sender who is not muted, that classifies as elevation_query or as
\* market_report and names no sale, ends the handler at once: nothing is
\* sent, lastBotResponse of the sender stays, the telemetry stays
C39_QueryWithoutSaleIsSilent ==
    [][(dlv'.id = dlv.id + 1 /\ queryWithoutSale(dlv')) =>
           /\ outbox' = outbox
           /\ analytics' = analytics
           /\ stampsOf(Cur', dlv'.from) = stampsOf(Cur, dlv'.from)
           /\ messages' = messages
           /\ handlers' = handlers
           /\ ~dlv'.suspended]_vars

\* a client who was answered on a query with a sale number has asked again
\* without one: the only sample of the telemetry is that of the first query
C39_Witness ==
    /\ dlv.id = 2 /\ queryWithoutSale(dlv)
    /\ DOMAIN handlers = {}
    /\ interactions[Client].messageCount = 2
    /\ interactions[Client].lastBotResponse # 0
    /\ analytics.total_messages = 1

C7_AtMostOnce ==
    \A i, j \in 1..Len(outbox) :
        (/\ outbox[i].kind = "staff reply"
         /\ outbox[j].kind = "staff reply"
         /\ outbox[i].ticket = outbox[j].ticket
         /\ outbox[i].body = outbox[j].body) => i = j

\* C8: when routeToDepartment returns, with no other handler in flight, the
\* store holds a ticket of the call for each member the forward has gone to.
C8_TicketPerReachedMember ==
    (rtObs.by > 0 /\ rtObs.alone) => rtObs.holders = rtObs.forwarded

\* C9: routeToDepartment returns true exactly if the forward has gone to a
\* member of the department; when the directory has no staff for the
\* department it returns false, sends nothing and adds no ticket.
C9_RoutedIffSent ==
    rtObs.by > 0
        => /\ rtObs.routed <=> rtObs.forwarded # {}
           /\ rtObs.members = 0
                => /\ ~rtObs.routed
                   /\ rtObs.forwarded = {}
                   /\ rtObs.holders = {}
                   /\ (rtObs.alone => rtObs.added = {})

\* the forward has gone to one of the two members of the department and
\* the send to the other has failed
C9_Witness ==
    /\ rtObs.by > 0
    /\ rtObs.routed
    /\ rtObs.members = 2
    /\ Cardinality(rtObs.forwarded) = 1

\* C10 as stated: of the tickets that match a reply, processStaffReply picks
\* one created latest.
C10_MostRecentMatch ==
    matchObs.by > 0
        => \A n \in matchObs.matching :
               matchObs.stamps[n] <= matchObs.stamps[matchObs.matched]

\* C10 as amended: of the tickets that match a reply, processStaffReply
\* picks the first in the iteration order of the store, which is the order
\* in which the ids were first added.
C10_FirstMatch ==
    matchObs.by > 0
        => /\ matchObs.matched \in matchObs.matching
           /\ \A n \in matchObs.matching : matchObs.matched <= n

\* two tickets created at different times match the reply
C10_Witness ==
    /\ matchObs.by > 0
    /\ \E n \in matchObs.matching :
           matchObs.stamps[n] > matchObs.stamps[matchObs.matched]

====
